---- MODULE Spec2Model ----
(***************************************************************************)
(* gitmuse: staged changes -> framed diff text -> classification ->        *)
(* prompt -> backend -> commit message.                                    *)
(*                                                                         *)
(* A Python str is a sequence of tokens.  A token is one character         *)
(* ("a", ".", "/", " ", "\n", "{", "-") or an atom that stands for a fixed *)
(* run of characters which the code only ever tests as a whole             *)
(* ("diff --git", "File: ", "Note:", an emoji name such as "memo" for the  *)
(* U+1F4DD character).  The line separator is the token "\n".              *)
(***************************************************************************)
EXTENDS Integers, Sequences, FiniteSets, TLC

VARIABLES
    pc,               \* which function of the program is being called / has returned
    staged_files,     \* List[StagedFile] handed to get_commit_files
    ignore_patterns,  \* Set[str] handed to get_commit_files
    files_to_commit,  \* get_commit_files: first component of the result
    ignored_files,    \* get_commit_files: second component of the result
    diff_content,     \* get_commit_files: third component; generate_commit_message: diff
    env,              \* what the collaborators answer in this run (configuration, backend)
    raw_response,     \* extract_message_from_raw_response: its argument
    commit_data,      \* format_commit_message: its argument
    changes_dict,     \* analyze_diff: its result; summarize_changes: its argument
    git_result,       \* run_command: the CompletedProcess of the git query
    queried_path,     \* should_ignore: its file_path argument
    earlier,          \* outcome of the same call in an earlier run of the program
    diff_outcomes,    \* get_commit_files: what git answered to get_diff, file by file
    cache,            \* the process: its lru_cache entries and what it has queried
    cmd,              \* commit_command: what the run has done so far
    ret               \* outcome of the last call: a value or a raised exception

vars == <<pc, staged_files, ignore_patterns, files_to_commit, ignored_files,
          diff_content, env, raw_response, commit_data, changes_dict, git_result,
          queried_path, earlier, diff_outcomes, cache, cmd, ret>>

(***************************************************************************)
(* Bounds of the model.                                                    *)
(***************************************************************************)
MaxFiles == 2

(***************************************************************************)
(* Python str primitives on token sequences.                               *)
(***************************************************************************)
NL == "\n"

Min(a, b) == IF a < b THEN a ELSE b

\* s[:n]
Prefix(s, n) == SubSeq(s, 1, Min(n, Len(s)))

\* s[n:]  (n counts the tokens dropped)
DropN(s, n) == SubSeq(s, n + 1, Len(s))

\* s.startswith(p)
StartsWith(s, p) == Len(s) >= Len(p) /\ SubSeq(s, 1, Len(p)) = p

RECURSIVE LStripSet(_, _)
LStripSet(s, cs) ==
    IF s # <<>> /\ Head(s) \in cs THEN LStripSet(Tail(s), cs) ELSE s

RECURSIVE RStripSet(_, _)
RStripSet(s, cs) ==
    IF s # <<>> /\ s[Len(s)] \in cs THEN RStripSet(SubSeq(s, 1, Len(s) - 1), cs) ELSE s

\* s.strip(chars)
StripSet(s, cs) == RStripSet(LStripSet(s, cs), cs)

\* s.strip()
Strip(s) == StripSet(s, {" ", NL})

\* index of the first occurrence of token c in s, 0 when there is none
IndexOf(s, c) ==
    IF \E i \in 1..Len(s) : s[i] = c
    THEN CHOOSE i \in 1..Len(s) : s[i] = c /\ \A j \in 1..(i - 1) : s[j] # c
    ELSE 0

\* index of the last occurrence of token c in s, 0 when there is none
LastIndexOf(s, c) ==
    IF \E i \in 1..Len(s) : s[i] = c
    THEN CHOOSE i \in 1..Len(s) : s[i] = c /\ \A j \in (i + 1)..Len(s) : s[j] # c
    ELSE 0

\* s.split(sep) for a one-token separator: always at least one piece
RECURSIVE Split(_, _)
Split(s, sep) ==
    LET i == IndexOf(s, sep)
    IN  IF i = 0 THEN <<s>>
        ELSE <<SubSeq(s, 1, i - 1)>> \o Split(DropN(s, i), sep)

\* sep.join(parts)
RECURSIVE Join(_, _)
Join(parts, sep) ==
    IF parts = <<>> THEN <<>>
    ELSE IF Len(parts) = 1 THEN parts[1]
    ELSE parts[1] \o sep \o Join(Tail(parts), sep)

\* the concatenation of a sequence of strings
RECURSIVE Flatten(_)
Flatten(parts) == IF parts = <<>> THEN <<>> ELSE Head(parts) \o Flatten(Tail(parts))

\* the elements of a sequence
Range(s) == {s[i] : i \in 1..Len(s)}

(***************************************************************************)
(* Outcome of a call: a returned value, or an exception that propagates.   *)
(***************************************************************************)
Return(v) == [raised |-> FALSE, exc |-> "", value |-> v]

Raise(e) == [raised |-> TRUE, exc |-> e, value |-> <<>>]

NoCall == [raised |-> FALSE, exc |-> "", value |-> <<>>]

(***************************************************************************)
(* fnmatch.fnmatch(name, pat) on POSIX: shell globbing over the whole      *)
(* string; "*" and "?" also match "/"; "[...]" is a character class        *)
(* ("[!...]" its complement) and an unclosed "[" is a literal.             *)
(***************************************************************************)
\* index of the "]" that closes the class opened at the head of p, 0 when unclosed
ClassEnd(p) ==
    LET start == IF Len(p) >= 2 /\ p[2] = "!" THEN 3 ELSE 2
        from  == IF Len(p) >= start /\ p[start] = "]" THEN start + 1 ELSE start
    IN  IF \E i \in from..Len(p) : p[i] = "]"
        THEN CHOOSE i \in from..Len(p) : p[i] = "]" /\ \A j \in from..(i - 1) : p[j] # "]"
        ELSE 0

RECURSIVE fnmatch(_, _)
fnmatch(name, pat) ==
    IF pat = <<>> THEN name = <<>>
    ELSE IF Head(pat) = "*"
        THEN fnmatch(name, Tail(pat)) \/ (name # <<>> /\ fnmatch(Tail(name), pat))
    ELSE IF Head(pat) = "?"
        THEN name # <<>> /\ fnmatch(Tail(name), Tail(pat))
    ELSE IF Head(pat) = "[" /\ ClassEnd(pat) # 0
        THEN LET e       == ClassEnd(pat)
                 negated == pat[2] = "!"
                 members == {pat[i] : i \in (IF negated THEN 3 ELSE 2)..(e - 1)}
             IN  /\ name # <<>>
                 /\ (Head(name) \in members) # negated
                 /\ fnmatch(Tail(name), DropN(pat, e))
    ELSE name # <<>> /\ Head(name) = Head(pat) /\ fnmatch(Tail(name), Tail(pat))

\* os.path.basename(path)
basename(path) == DropN(path, LastIndexOf(path, "/"))

(***************************************************************************)
(* git_utils.should_ignore                                                 *)
(***************************************************************************)
\* the condition of the if inside the loop over ignore_patterns
PatternHits(file_path, pattern) ==
    \/ (StartsWith(pattern, <<"/">>) /\ fnmatch(file_path, Tail(pattern)))
    \/ fnmatch(file_path, pattern)
    \/ ("/" \in Range(pattern) /\ fnmatch(file_path, pattern))
    \/ fnmatch(basename(file_path), pattern)

\* should_ignore with the staged-files test left out
should_ignore_NoStagedTest(file_path, patterns, staged) ==
    \E pattern \in patterns : PatternHits(file_path, pattern)

should_ignore(file_path, patterns, staged) ==
    IF file_path \in {staged[i].file_path : i \in 1..Len(staged)} THEN FALSE
    ELSE \E pattern \in patterns : PatternHits(file_path, pattern)

(***************************************************************************)
(* The staged snapshot: models.StagedFile / git_utils.StagedFile.          *)
(***************************************************************************)
Statuses == {"A", "M", "D", "R100"}

PathA == <<"a", ".", "p", "y">>

PathB == <<"b", ".", "m", "d">>

PathC == <<"c", ".", "l", "o", "c", "k">>

PathL == <<"y", "a", "r", "n", ".", "l", "o", "c", "k">>

Paths == {PathA, PathB, PathC, PathL}

StagedFile == [status : Statuses, file_path : Paths]

\* lists of at most n staged files, no path twice (git names each path once)
RECURSIVE StagedLists(_)
StagedLists(n) ==
    IF n = 0 THEN {<<>>}
    ELSE LET shorter == StagedLists(n - 1)
             longest == {l \in shorter : Len(l) = n - 1}
             fresh(l) == {f \in StagedFile : \A i \in 1..Len(l) : l[i].file_path # f.file_path}
         IN  shorter \cup UNION {{Append(l, f) : f \in fresh(l)} : l \in longest}

\* the contents of the repository's .gitignore files in this run
PatternSets ==
    { {},
      {<<"*", ".", "l", "o", "c", "k">>},
      {<<"/", "a", ".", "p", "y">>, <<"[", "a", "b", "]", ".", "m", "d">>} }

(***************************************************************************)
(* git_utils.run_command / get_staged_files                                *)
(***************************************************************************)
TAB == "\t"

\* StagedFile(status=..., file_path=...): the validator accepts four codes
ValidStatus(status) == status \in {<<s>> : s \in Statuses}

\* the loop body, on one line of stdout; st.raised once the constructor has raised
StagedFilesLine(st, line) ==
    IF st.raised THEN st
    ELSE LET parts == Split(line, TAB)
         IN  IF Len(parts) >= 2
             THEN IF ValidStatus(parts[1])
                  THEN [st EXCEPT !.value = Append(@, [status |-> parts[1][1],
                                                       file_path |-> parts[2]])]
                  ELSE [st EXCEPT !.raised = TRUE, !.exc = "ValidationError"]
             ELSE [st EXCEPT !.warnings = Append(@, line)]

RECURSIVE StagedFilesLines(_, _)
StagedFilesLines(st, lines) ==
    IF lines = <<>> THEN st
    ELSE StagedFilesLines(StagedFilesLine(st, Head(lines)), Tail(lines))

\* get_staged_files() on the CompletedProcess that run_command returned: with
\* check=False a non-zero return code raises nothing, and it is not looked at
get_staged_files(result) ==
    LET st == StagedFilesLines([raised |-> FALSE, exc |-> "", value |-> <<>>,
                                warnings |-> <<>>], result.stdout)
    IN  IF st.raised THEN [st EXCEPT !.value = <<>>] ELSE st

(***************************************************************************)
(* git_utils.get_gitignore_patterns, and functools.lru_cache(maxsize=1)    *)
(* around the two functions without arguments                              *)
(***************************************************************************)
\* the body of get_gitignore_patterns on the lines of the .gitignore files found
\* by os.walk: a line counts when it is not blank and does not begin with "#"
get_gitignore_patterns(lines) ==
    Return({Strip(lines[i]) :
               i \in {k \in 1..Len(lines) :
                         Strip(lines[k]) # <<>> /\ ~StartsWith(lines[k], <<"#">>)}})

\* a wrapper that runs the body on every call
lru_cache_NoCache(entry, outcome) ==
    [entry |-> entry, ret |-> outcome, ran |-> TRUE]

\* one call through the wrapper: entry is the cache slot, outcome what the body
\* gives when run now; a raised exception is not stored
lru_cache(entry, outcome) ==
    IF entry.hit
    THEN [entry |-> entry, ret |-> Return(entry.value), ran |-> FALSE]
    ELSE IF outcome.raised
    THEN [entry |-> entry, ret |-> outcome, ran |-> TRUE]
    ELSE [entry |-> [hit |-> TRUE, value |-> outcome.value], ret |-> outcome, ran |-> TRUE]

(***************************************************************************)
(* What "git diff --cached <path>" prints, by the shape of the change.     *)
(***************************************************************************)
DiffGitLine(old, new) == <<"diff --git", " a/">> \o old \o <<" b/">> \o new \o <<NL>>

GitDiffText(shape, path) ==
    CASE shape = "added" ->
            DiffGitLine(path, path)
            \o <<"new file", " mode 100644", NL>>
            \o <<"index", " 0000000..e69de29", NL>>
            \o <<"---", " /dev/null", NL>>
            \o <<"+++", " b/">> \o path \o <<NL>>
            \o <<"@@", " -0,0 +1 @@", NL>>
            \o <<"+", "x", NL>>
      [] shape = "modified" ->
            DiffGitLine(path, path)
            \o <<"index", " e69de29..4b825dc", " 100644", NL>>
            \o <<"---", " a/">> \o path \o <<NL>>
            \o <<"+++", " b/">> \o path \o <<NL>>
            \o <<"@@", " -1 +1 @@", NL>>
            \o <<"-", "x", NL>>
            \o <<"+", "y", NL>>
      [] shape = "mode" ->
            DiffGitLine(path, path)
            \o <<"old mode", " 100644", NL>>
            \o <<"new mode", " 100755", NL>>
      [] shape = "deleted" ->
            DiffGitLine(path, path)
            \o <<"deleted file", " mode 100644", NL>>
            \o <<"index", " e69de29..0000000", NL>>
            \o <<"---", " a/">> \o path \o <<NL>>
            \o <<"+++", " /dev/null", NL>>
            \o <<"@@", " -1 +0,0 @@", NL>>
            \o <<"-", "x", NL>>
      [] shape = "renamed" ->
            DiffGitLine(path, path \o <<"2">>)
            \o <<"similarity index", " 100%", NL>>
            \o <<"rename from", " ">> \o path \o <<NL>>
            \o <<"rename to", " ">> \o path \o <<"2", NL>>
      [] OTHER -> <<>>

\* git_utils.get_diff(file_path): stdout of git, or "" when git fails or raises.
\* Which of them happens is the repository's doing: the shapes git can print
\* for a path staged with this status, and "failed".
GetDiffOutcomes(status) ==
    CASE status = "A" -> {"failed", "added"}
      [] status = "M" -> {"failed", "modified", "mode"}
      [] status = "R100" -> {"failed", "deleted"}
      [] OTHER -> {"uncalled"}

get_diff(file_path, outcome) ==
    IF outcome \in {"failed", "uncalled"} THEN <<>> ELSE GitDiffText(outcome, file_path)

(***************************************************************************)
(* diff_analyzer.ADDITIONAL_IGNORE_PATTERNS: added to the patterns by      *)
(* GitDiffAnalyzer.__init__ only; commit_command hands get_commit_files    *)
(* the patterns of get_gitignore_patterns as they are.                     *)
(***************************************************************************)
ADDITIONAL_IGNORE_PATTERNS ==
    { <<"p", "o", "e", "t", "r", "y", ".", "l", "o", "c", "k">>,
      <<"p", "a", "c", "k", "a", "g", "e", "-", "l", "o", "c", "k", ".", "j", "s", "o", "n">>,
      <<"y", "a", "r", "n", ".", "l", "o", "c", "k">>,
      <<"b", "u", "n", ".", "l", "o", "c", "k">> }

\* GitDiffAnalyzer.get_diff: the paths it reports as ignored
GitDiffAnalyzer_ignored_files(staged, patterns) ==
    SelectSeq([i \in 1..Len(staged) |-> staged[i].file_path],
              LAMBDA path : should_ignore(path, patterns \cup ADDITIONAL_IGNORE_PATTERNS,
                                          staged))

(***************************************************************************)
(* commands.get_commit_files                                               *)
(***************************************************************************)
\* one block of diff_content
DiffBlock(file, file_diff) ==
    <<"File: ">> \o file.file_path \o <<NL, "Status: ", file.status, NL>>
    \o file_diff \o <<NL, NL>>

\* the loop body putting each new block in front of diff_content
CommitFilesStep_Prepend(acc, file, staged, patterns, outcome) ==
    IF should_ignore(file.file_path, patterns, staged)
    THEN [acc EXCEPT !.ignored_files = Append(@, [file_path |-> file.file_path])]
    ELSE IF file.status # "D"
    THEN LET file_diff == get_diff(file.file_path, outcome)
         IN  IF file_diff # <<>>
             THEN [acc EXCEPT !.diff_content = DiffBlock(file, file_diff) \o @,
                              !.files_to_commit = Append(@, file)]
             ELSE acc
    ELSE [acc EXCEPT !.files_to_commit = Append(@, file)]

\* the loop body, applied to staged[i] with the results so far in acc
CommitFilesStep(acc, file, staged, patterns, outcome) ==
    IF should_ignore(file.file_path, patterns, staged)
    THEN [acc EXCEPT !.ignored_files = Append(@, [file_path |-> file.file_path])]
    ELSE IF file.status # "D"
    THEN LET file_diff == get_diff(file.file_path, outcome)
         IN  IF file_diff # <<>>
             THEN [acc EXCEPT !.diff_content = @ \o DiffBlock(file, file_diff),
                              !.files_to_commit = Append(@, file)]
             ELSE acc
    ELSE [acc EXCEPT !.files_to_commit = Append(@, file)]

RECURSIVE CommitFilesLoop(_, _, _, _, _)
CommitFilesLoop(acc, i, staged, patterns, outcomes) ==
    IF i > Len(staged) THEN acc
    ELSE CommitFilesLoop(CommitFilesStep(acc, staged[i], staged, patterns, outcomes[i]),
                         i + 1, staged, patterns, outcomes)

\* get_commit_files giving up the whole batch when one get_diff fails
get_commit_files_AbortOnFailure(staged, patterns, outcomes) ==
    IF \E i \in 1..Len(staged) : outcomes[i] = "failed"
    THEN [files_to_commit |-> <<>>, ignored_files |-> <<>>, diff_content |-> <<>>]
    ELSE CommitFilesLoop([files_to_commit |-> <<>>, ignored_files |-> <<>>,
                          diff_content |-> <<>>], 1, staged, patterns, outcomes)

get_commit_files(staged, patterns, outcomes) ==
    CommitFilesLoop([files_to_commit |-> <<>>, ignored_files |-> <<>>, diff_content |-> <<>>],
                    1, staged, patterns, outcomes)

(***************************************************************************)
(* diff_analyzer.GitDiffAnalyzer.analyze_diff / _append_change             *)
(***************************************************************************)
Categories == <<"added", "modified", "deleted", "renamed">>

EmptyChanges == [added |-> <<>>, modified |-> <<>>, deleted |-> <<>>, renamed |-> <<>>]

\* line.startswith(atom), for the atoms a line of the diff text can begin with
LineStarts(line, atom) == line # <<>> /\ Head(line) = atom

\* line.split(" b/")[-1]
AfterLastB(line) == DropN(line, LastIndexOf(line, " b/"))

\* changes[status].append(...): KeyError when status is no key of changes
append_change(st, status, file, content) ==
    IF status \in Range(Categories)
    THEN [st EXCEPT !.changes[status] =
              Append(@, [file |-> file, content |-> Strip(Join(content, <<NL>>))])]
    ELSE [st EXCEPT !.raised = TRUE]

AnalyzeLine(st, line) ==
    IF st.raised THEN st
    ELSE IF LineStarts(line, "diff --git")
    THEN LET flushed == IF st.current_file # <<>>
                        THEN append_change(st, st.current_status, st.current_file,
                                           st.current_content)
                        ELSE st
         IN  [flushed EXCEPT !.current_file = AfterLastB(line), !.current_content = <<>>]
    ELSE IF LineStarts(line, "new file") THEN [st EXCEPT !.current_status = "added"]
    ELSE IF LineStarts(line, "deleted file") THEN [st EXCEPT !.current_status = "deleted"]
    ELSE IF LineStarts(line, "rename from") THEN [st EXCEPT !.current_status = "renamed"]
    ELSE IF LineStarts(line, "index")
    THEN IF st.current_status = "" THEN [st EXCEPT !.current_status = "modified"] ELSE st
    ELSE [st EXCEPT !.current_content = Append(@, line)]

RECURSIVE AnalyzeLines(_, _)
AnalyzeLines(st, lines) ==
    IF lines = <<>> THEN st ELSE AnalyzeLines(AnalyzeLine(st, Head(lines)), Tail(lines))

analyze_diff(diff) ==
    LET start == [changes |-> EmptyChanges, current_file |-> <<>>, current_status |-> "",
                  current_content |-> <<>>, raised |-> FALSE]
        scanned == AnalyzeLines(start, Split(diff, NL))
        final == IF ~scanned.raised /\ scanned.current_file # <<>>
                 THEN append_change(scanned, scanned.current_status, scanned.current_file,
                                    scanned.current_content)
                 ELSE scanned
    IN  IF final.raised THEN Raise("KeyError") ELSE Return(final.changes)


(***************************************************************************)
(* message_generator.summarize_changes / generate_detailed_changes and     *)
(* diff_analyzer.get_diff_summary                                          *)
(***************************************************************************)
FilesCap == 5

ContentLimit == 100

\* str.capitalize() of the category names
Capitalize(category) ==
    CASE category = "added" -> "Added"
      [] category = "modified" -> "Modified"
      [] category = "deleted" -> "Deleted"
      [] OTHER -> "Renamed"

\* os.path.splitext(path)[1]: from the last dot of the last segment on, unless
\* that dot leads the segment
splitext(path) ==
    LET name == basename(path)
        dot == LastIndexOf(name, ".")
    IN  IF dot > 1 THEN DropN(name, dot - 1) ELSE <<>>

CodeExts == {<<".", "p", "y">>, <<".", "j", "s">>, <<".", "t", "s">>,
             <<".", "c", "p", "p">>, <<".", "j", "a", "v", "a">>}

DocExts == {<<".", "m", "d">>, <<".", "t", "x", "t">>, <<".", "r", "s", "t">>}

ConfExts == {<<".", "j", "s", "o", "n">>, <<".", "y", "a", "m", "l">>,
             <<".", "y", "m", "l">>, <<".", "t", "o", "m", "l">>}

file_type(file_ext) ==
    IF file_ext \in CodeExts THEN "code"
    ELSE IF file_ext \in DocExts THEN "documentation"
    ELSE IF file_ext \in ConfExts THEN "configuration"
    ELSE "unknown"

\* the description appended for one item of one category
change_description(category, item) ==
    <<Capitalize(category), " in ", file_type(splitext(item.file)), " file ">>
    \o item.file \o <<": ">> \o Prefix(item.content, ContentLimit) \o <<"...">>

\* generate_detailed_changes describing only the first item of each category
generate_detailed_changes_FirstOfCategory(changes) ==
    Flatten([c \in 1..Len(Categories) |->
                [i \in 1..Min(1, Len(changes[Categories[c]])) |->
                    change_description(Categories[c], changes[Categories[c]][i])]])

\* one description per item, categories in the order of the dict
generate_detailed_changes(changes) ==
    Flatten([c \in 1..Len(Categories) |->
                [i \in 1..Len(changes[Categories[c]]) |->
                    change_description(Categories[c], changes[Categories[c]][i])]])

\* set(change["file"] ...): the distinct paths
ChangedFiles(changes) ==
    UNION {{changes[c][i].file : i \in 1..Len(changes[c])} : c \in Range(Categories)}

\* list(set): the orders in which a set of str can be iterated; which one a
\* process gets depends on its string hash seed
RECURSIVE SetOrders(_)
SetOrders(S) ==
    IF S = {} THEN {<<>>}
    ELSE UNION {{<<x>> \o rest : rest \in SetOrders(S \ {x})} : x \in S}

\* files_summary with the overflow suffix already at the cap
files_summary_SuffixAtCap(files_changed) ==
    Join(Prefix(files_changed, FilesCap), <<", ">>)
    \o (IF Len(files_changed) >= FilesCap
        THEN <<" and ", ToString(Len(files_changed) - FilesCap), " more files">>
        ELSE <<>>)

files_summary(files_changed) ==
    Join(Prefix(files_changed, FilesCap), <<", ">>)
    \o (IF Len(files_changed) > FilesCap
        THEN <<" and ", ToString(Len(files_changed) - FilesCap), " more files">>
        ELSE <<>>)

\* "<Category>: <n> file(s)"
CountItem(category, items) == <<Capitalize(category), ": ", ToString(Len(items)), " file(s)">>

\* changes_summary with the test on items left out
changes_summary_AllCategories(changes) ==
    Join([c \in 1..Len(Categories) |-> CountItem(Categories[c], changes[Categories[c]])],
         <<", ">>)

changes_summary(changes) ==
    Join([c \in 1..Len(SelectSeq(Categories, LAMBDA k : changes[k] # <<>>)) |->
             LET k == SelectSeq(Categories, LAMBDA x : changes[x] # <<>>)[c]
             IN  CountItem(k, changes[k])],
         <<", ">>)

\* summarize_changes(changes), the set iterating in the order files_changed
summarize_changes(changes, files_changed) ==
    [files_summary |-> files_summary(files_changed),
     changes_summary |-> changes_summary(changes),
     detailed_changes |-> generate_detailed_changes(changes)]

\* get_diff_summary(diff)
get_diff_summary(diff) ==
    LET analysis == analyze_diff(diff)
    IN  IF analysis.raised THEN analysis
        ELSE Return(Join([c \in 1..Len(SelectSeq(Categories,
                                           LAMBDA k : analysis.value[k] # <<>>)) |->
                            LET k == SelectSeq(Categories,
                                               LAMBDA x : analysis.value[x] # <<>>)[c]
                            IN  CountItem(k, analysis.value[k])],
                         <<", ">>))

(***************************************************************************)
(* JSON values as json.loads returns them, and their text.                 *)
(*                                                                         *)
(* An object of the catalogue is written "{" key "}", where key is an atom *)
(* standing for the members between the braces; other values are written   *)
(* as in JSON.  json.loads reads the text back: it is not the identity,    *)
(* and text around a value makes it fail.                                  *)
(***************************************************************************)
TitleLimit == 50

Chr(i) == IF i = 1 THEN "bug" ELSE IF i % 2 = 0 THEN "a" ELSE "b"

\* a title of n characters
TitleOfLen(n) == [i \in 1..n |-> Chr(i)]

StrVal(v) == [present |-> TRUE, type |-> "str", value |-> v]

IntVal == [present |-> TRUE, type |-> "int", value |-> <<"5">>]

Absent == [present |-> FALSE, type |-> "", value |-> <<>>]

NoBody == [present |-> FALSE, type |-> "", cats |-> <<>>, items |-> <<>>, text |-> <<>>]

DictBody(cats) ==
    [present |-> TRUE, type |-> "dict", cats |-> cats, items |-> <<>>, text |-> <<>>]

ListBody(items) ==
    [present |-> TRUE, type |-> "list", cats |-> <<>>, items |-> items, text |-> <<>>]

StrBody(text) ==
    [present |-> TRUE, type |-> "str", cats |-> <<>>, items |-> <<>>, text |-> text]

\* "name": {"emoji": e, "changes": [...]}
Cat(name, emoji, changes) ==
    [name |-> name, type |-> "dict", has_emoji |-> TRUE, emoji |-> emoji,
     changes_type |-> "list", changes |-> changes, text |-> <<>>]

\* "name": {"changes": 5}
CatBadChanges(name) ==
    [name |-> name, type |-> "dict", has_emoji |-> FALSE, emoji |-> <<>>,
     changes_type |-> "int", changes |-> <<>>, text |-> <<>>]

\* "name": [...]
CatList(name, changes) ==
    [name |-> name, type |-> "list", has_emoji |-> FALSE, emoji |-> <<>>,
     changes_type |-> "list", changes |-> changes, text |-> <<>>]

\* "name": "text"
CatStr(name, text) ==
    [name |-> name, type |-> "str", has_emoji |-> FALSE, emoji |-> <<>>,
     changes_type |-> "", changes |-> <<>>, text |-> text]

Obj(title, body, summary) ==
    [type |-> "dict", title |-> title, body |-> body, summary |-> summary, text |-> <<>>]

Scalar(type, text) ==
    [type |-> type, title |-> Absent, body |-> NoBody, summary |-> Absent, text |-> text]

FixX == <<"f", "i", "x", ":", " ", "x">>

FixedY == <<"f", "i", "x", "e", "d", " ", "y">>

AddZ == <<"a", "d", "d", " ", "z">>

Done == <<"d", "o", "n", "e">>

BugCat == <<"B", "u", "g">>

FeatCat == <<"F", "e", "a", "t">>

\* the members of the catalogue's objects, by key
Objects ==
    [k \in {"full", "two", "long", "longer", "list", "str", "bare", "mixed", "nobody",
            "nolist", "blank", "inttitle", "intchanges"} |->
        CASE k = "full" ->
                Obj(StrVal(FixX), DictBody(<<Cat(BugCat, <<"bug">>, <<FixedY>>)>>), StrVal(Done))
          [] k = "two" ->
                Obj(StrVal(TitleOfLen(TitleLimit)),
                    DictBody(<<Cat(BugCat, <<"bug">>, <<FixedY, AddZ>>),
                               Cat(FeatCat, <<"sparkles">>, <<AddZ>>)>>),
                    StrVal(Done))
          [] k = "long" ->
                Obj(StrVal(TitleOfLen(TitleLimit + 1)), ListBody(<<FixedY, AddZ>>), StrVal(Done))
          [] k = "longer" ->
                Obj(StrVal(TitleOfLen(TitleLimit + 10)), StrBody(FixedY), StrVal(Done))
          [] k = "list" -> Obj(StrVal(FixX), ListBody(<<FixedY>>), StrVal(Done))
          [] k = "str" -> Obj(StrVal(FixX), StrBody(AddZ), StrVal(Done))
          [] k = "bare" -> Obj(Absent, NoBody, Absent)
          [] k = "mixed" ->
                Obj(StrVal(FixX),
                    DictBody(<<CatList(BugCat, <<FixedY>>), CatStr(FeatCat, AddZ)>>),
                    StrVal(Done))
          [] k = "nobody" -> Obj(StrVal(FixX), DictBody(<<>>), StrVal(Done))
          [] k = "nolist" -> Obj(StrVal(FixX), ListBody(<<>>), StrVal(Done))
          [] k = "blank" -> Obj(StrVal(<<>>), StrBody(FixedY), StrVal(<<>>))
          [] k = "inttitle" -> Obj(IntVal, NoBody, StrVal(Done))
          [] k = "intchanges" ->
                Obj(StrVal(FixX), DictBody(<<CatBadChanges(BugCat)>>), StrVal(Done))]

ObjectKeys == DOMAIN Objects

\* json.dumps of the catalogue's values
JsonText(k) == <<"{", k, "}">>

ListText == <<"[", "1", ",", "2", "]">>

IntText == <<"4", "2">>

NullText == <<"n", "u", "l", "l">>

QuotedText == <<"\"">> \o FixX \o <<"\"">>

\* json.loads(s): the value, or JSONDecodeError
json_loads(s) ==
    LET t == StripSet(s, {" ", NL})
    IN  IF Len(t) = 3 /\ t[1] = "{" /\ t[3] = "}" /\ t[2] \in ObjectKeys
        THEN Return(Objects[t[2]])
        ELSE IF t = ListText THEN Return(Scalar("list", <<>>))
        ELSE IF t = IntText THEN Return(Scalar("int", <<>>))
        ELSE IF t = NullText THEN Return(Scalar("NoneType", <<>>))
        ELSE IF Len(t) >= 2 /\ t[1] = "\"" /\ t[Len(t)] = "\""
                /\ \A i \in 2..(Len(t) - 1) : t[i] \notin {"\"", NL}
        THEN Return(Scalar("str", SubSeq(t, 2, Len(t) - 1)))
        ELSE Raise("JSONDecodeError")


(***************************************************************************)
(* message_generator.format_commit_message                                 *)
(***************************************************************************)
DefaultTitle == <<"U", "p", "d", "a", "t", "e", " ", "f", "i", "l", "e", "s">>

DefaultSummary == <<"Changes were made to the codebase.">>

DefaultEmoji == <<"memo">>

\* "- {change}\n" for each change
Bullets(changes) == Flatten([i \in 1..Len(changes) |-> <<"-", " ">> \o changes[i] \o <<NL>>])

\* what the loop over body.items() adds for one category
CategoryText(c) ==
    (IF c.type = "dict"
     THEN (IF c.has_emoji THEN c.emoji ELSE DefaultEmoji) \o <<" ">> \o c.name \o <<":", NL>>
          \o Bullets(c.changes)
     ELSE IF c.type = "list"
     THEN DefaultEmoji \o <<" ">> \o c.name \o <<":", NL>> \o Bullets(c.changes)
     ELSE DefaultEmoji \o <<" ">> \o c.name \o <<":", " ">> \o c.text \o <<NL>>)
    \o <<NL>>

BodyText(body) ==
    IF ~body.present \/ body.type = "dict"
    THEN Flatten([i \in 1..Len(body.cats) |-> CategoryText(body.cats[i])])
    ELSE IF body.type = "list"
    THEN Flatten([i \in 1..Len(body.items) |-> body.items[i] \o <<NL>>]) \o <<NL>>
    ELSE IF body.type = "str" THEN body.text \o <<NL, NL>>
    ELSE <<>>

\* the title line: commit_data.get('title', 'Update files')[:50]
TitleLine(data) ==
    Prefix(IF data.title.present THEN data.title.value ELSE DefaultTitle, TitleLimit)

SummaryLine(data) ==
    IF data.summary.present THEN data.summary.value ELSE DefaultSummary

\* format_commit_message with the summary written before the body
format_commit_message_SummaryFirst(data) ==
    IF data.type = "str" THEN Return(data.text)
    ELSE IF data.type # "dict" THEN Raise("AttributeError")
    ELSE Return(Strip(TitleLine(data) \o <<NL, NL>> \o SummaryLine(data) \o <<NL>>
                      \o BodyText(data.body)))

format_commit_message(data) ==
    IF data.type = "str" THEN Return(data.text)
    ELSE IF data.type # "dict" THEN Raise("AttributeError")
    ELSE IF data.title.present /\ data.title.type # "str" THEN Raise("TypeError")
    ELSE IF data.body.present /\ data.body.type = "dict"
            /\ \E i \in 1..Len(data.body.cats) :
                   data.body.cats[i].type = "dict" /\ data.body.cats[i].changes_type # "list"
    THEN Raise("TypeError")
    ELSE Return(Strip(TitleLine(data) \o <<NL, NL>> \o BodyText(data.body)
                      \o SummaryLine(data) \o <<NL>>))

(***************************************************************************)
(* message_generator.extract_message_from_raw_response                     *)
(***************************************************************************)
\* a str argument, or None
Str(text) == [is_none |-> FALSE, text |-> text]

None == [is_none |-> TRUE, text |-> <<>>]

\* the tokens of s at the indices in keep, in order
Pick(s, keep) ==
    [k \in 1..Cardinality(keep) |->
        s[CHOOSE i \in keep : Cardinality({j \in keep : j < i}) = k - 1]]

\* re.sub of the fence pattern (three backticks, an optional "json", any whitespace)
\* by the empty string; "fence" is the atom of three backticks
StripFences(s) ==
    LET opens(j) == s[j] = "fence" \/ (s[j] = "json" /\ j > 1 /\ s[j - 1] = "fence")
        matched(i) ==
            \/ opens(i)
            \/ /\ s[i] \in {" ", NL}
               /\ \E j \in 1..(i - 1) :
                      opens(j) /\ \A k \in (j + 1)..i : s[k] \in {" ", NL}
    IN  Pick(s, {i \in 1..Len(s) : ~matched(i)})

\* the first characters that make a line a title or a section
TitleEmojis == {"gem", "sparkles", "arrow_up", "bug", "recycle", "memo", "wrench", "rocket"}

\* the fallback of generate_commit_message, as its title line
FallbackTitle == <<"memo", " ">> \o DefaultTitle

\* the body of the loop over the lines
FreeformLine(st, raw_line) ==
    LET line == Strip(raw_line)
    IN  IF line = <<>> THEN st
        ELSE IF Head(line) \in TitleEmojis
        THEN IF st.title # <<>> THEN [st EXCEPT !.current_section = line]
             ELSE [st EXCEPT !.title = line]
        ELSE IF Head(line) = "-"
        THEN [st EXCEPT !.body = Append(@, st.current_section \o <<NL>> \o line)]
        ELSE IF st.summary = <<>> THEN [st EXCEPT !.summary = line]
        ELSE st

RECURSIVE FreeformLines(_, _)
FreeformLines(st, lines) ==
    IF lines = <<>> THEN st ELSE FreeformLines(FreeformLine(st, Head(lines)), Tail(lines))

\* a response that is not JSON answered by a fixed placeholder
Freeform_Placeholder(text) == FallbackTitle

\* the message put together from the lines of a response that is not JSON
Freeform(text) ==
    LET st == FreeformLines([title |-> <<>>, body |-> <<>>, summary |-> <<>>,
                             current_section |-> <<>>], Split(text, NL))
        formatted == (IF st.title # <<>> THEN st.title \o <<NL, NL>> ELSE <<>>)
                     \o Join(st.body, <<NL>>)
                     \o (IF st.summary # <<>> THEN <<NL, NL>> \o st.summary ELSE <<>>)
    IN  Strip(IF Strip(formatted) = <<>> THEN text ELSE formatted)

\* re.search of an opening brace, anything, a closing brace (DOTALL, greedy)
BraceMatch(content) ==
    LET i == IndexOf(content, "{")
        j == LastIndexOf(content, "}")
    IN  IF i # 0 /\ j > i THEN SubSeq(content, i, j) ELSE <<>>

extract_message_from_raw_response(raw) ==
    IF raw.is_none THEN Raise("TypeError")
    ELSE LET text == StripSet(StripFences(raw.text), {"backtick"})
             parsed == json_loads(text)
         IN  IF ~parsed.raised THEN format_commit_message(parsed.value)
             ELSE Return(Freeform(text))


(***************************************************************************)
(* The backends: OpenAIProvider and OllamaProvider.generate_commit_message *)
(* Each returns a str whatever happens: its own placeholder message when   *)
(* the service is unavailable, the request fails or the answer cannot be   *)
(* processed.                                                              *)
(***************************************************************************)
KeyNotSet == FallbackTitle \o <<NL, NL, "OpenAI API key is not set.">>

NotRunning == FallbackTitle \o <<NL, NL, "Ollama is not running or not accessible.">>

FailedToGenerate ==
    FallbackTitle \o <<NL, NL, "Failed to generate commit message due to an error.">>

EmptyAnswer == FallbackTitle \o <<NL, NL, "Summary of changes.">>

\* OpenAIProvider.format_commit_message: every key is required, nothing is stripped
openai_format_commit_message(data) ==
    IF data.type # "dict" THEN Raise("TypeError")
    ELSE IF ~data.title.present \/ ~data.body.present \/ ~data.summary.present
    THEN Raise("KeyError")
    ELSE IF data.title.type # "str" THEN Raise("TypeError")
    ELSE IF data.body.type # "dict" THEN Raise("AttributeError")
    ELSE IF \E i \in 1..Len(data.body.cats) :
                LET c == data.body.cats[i]
                IN  c.type # "dict" \/ ~c.has_emoji \/ c.changes_type # "list"
    THEN Raise("TypeError")
    ELSE Return(Prefix(data.title.value, TitleLimit) \o <<NL, NL>>
                \o Flatten([i \in 1..Len(data.body.cats) |->
                       LET c == data.body.cats[i]
                       IN  c.emoji \o <<" ">> \o c.name \o <<":", NL>>
                           \o Bullets(c.changes) \o <<NL>>])
                \o data.summary.value \o <<NL>>)

\* OpenAIProvider.process_openai_response on the content of the first choice
process_openai_response(content) ==
    LET match == BraceMatch(content)
        parsed == json_loads(match)
    IN  IF match = <<>> THEN Raise("ValueError")
        ELSE IF parsed.raised THEN parsed
        ELSE openai_format_commit_message(parsed.value)

\* OllamaProvider.process_ollama_response on response["response"]
process_ollama_response(response) ==
    LET generated == Strip(response)
        cleaned == Strip(SelectSeq(generated, LAMBDA c : c # "<|eot_id|>"))
        lines == Split(cleaned, NL)
        kept == SelectSeq(lines, LAMBDA l : ~LineStarts(l, "Note:")
                                             /\ ~LineStarts(l, "IMPORTANT:"))
    IN  IF generated = <<>> THEN EmptyAnswer ELSE Strip(Join(kept, <<NL>>))

\* provider_instance.generate_commit_message(prompt): the str returned and whether
\* it is the backend's own placeholder
provider_generate(provider, backend) ==
    IF ~backend.available
    THEN [text |-> IF provider = "openai" THEN KeyNotSet ELSE NotRunning, failed |-> TRUE]
    ELSE IF backend.request_fails THEN [text |-> FailedToGenerate, failed |-> TRUE]
    ELSE IF provider = "openai"
    THEN LET r == process_openai_response(backend.content)
         IN  IF r.raised THEN [text |-> FailedToGenerate, failed |-> TRUE]
             ELSE [text |-> r.value, failed |-> FALSE]
    ELSE [text |-> process_ollama_response(backend.content),
          failed |-> Strip(backend.content) = <<>>]

(***************************************************************************)
(* message_generator.create_prompt_content: str.format on the template.    *)
(* A template is a token sequence whose replacement fields are atoms.      *)
(***************************************************************************)
KnownFields == {"{files_summary}", "{changes_summary}", "{detailed_changes}", "{keywords}"}

IsField(tok) == tok \in KnownFields \cup {"{author}"}

DefaultTemplate ==
    <<"Files changed: ", "{files_summary}", NL, "Summary: ", "{changes_summary}", NL,
      "{detailed_changes}", NL, "Use one of: ", "{keywords}", NL>>

\* create_prompt_content leaving a field it cannot resolve in the prompt
create_prompt_content_PassThrough(use_default_template, custom_template) ==
    LET template == IF ~use_default_template THEN custom_template ELSE DefaultTemplate
    IN  Return([i \in 1..Len(template) |->
                   IF template[i] \in KnownFields THEN "value of " \o template[i]
                   ELSE template[i]])

create_prompt_content(use_default_template, custom_template) ==
    LET template == IF ~use_default_template THEN custom_template ELSE DefaultTemplate
    IN  IF \E i \in 1..Len(template) : IsField(template[i]) /\ template[i] \notin KnownFields
        THEN Raise("KeyError")
        ELSE Return([i \in 1..Len(template) |->
                        IF IsField(template[i]) THEN "value of " \o template[i]
                        ELSE template[i]])

(***************************************************************************)
(* message_generator.get_provider / generate_commit_message                *)
(***************************************************************************)
Providers == {"openai", "ollama"}

ErrorMessage(exc) ==
    FallbackTitle
    \o <<NL, NL, "An error occurred while generating the commit message. Error details: ",
         exc>>

\* the try block asking the provider before the prompt is assembled
GenerateSteps_BackendFirst(diff, provider, use_default_template, custom_template, config, backend) ==
    LET analysis == analyze_diff(diff)
        template == IF custom_template # <<>> THEN custom_template ELSE config.customTemplate
        prompt == create_prompt_content(use_default_template, template)
        answer == provider_generate(provider, backend)
        extracted == extract_message_from_raw_response(Str(answer.text))
        outcome(r, step, called) ==
            [raised |-> r.raised, exc |-> r.exc, value |-> r.value,
             failed |-> step, backend_called |-> called]
    IN  IF analysis.raised THEN outcome(analysis, "analyze_diff", FALSE)
        ELSE IF provider \notin Providers
        THEN outcome(Raise("ValueError"), "get_provider", FALSE)
        ELSE IF prompt.raised THEN outcome(prompt, "create_prompt_content", TRUE)
        ELSE IF extracted.raised
        THEN outcome(extracted, "extract_message_from_raw_response", TRUE)
        ELSE IF Strip(extracted.value) = <<>>
        THEN outcome(Raise("ValueError"), "empty message", TRUE)
        ELSE outcome(extracted, IF answer.failed THEN "backend" ELSE "none", TRUE)

\* the try block: the first step that raises ends it
GenerateSteps(diff, provider, use_default_template, custom_template, config, backend) ==
    LET analysis == analyze_diff(diff)
        \* template = custom_template or CONFIG.get_commit_message_template()
        template == IF custom_template # <<>> THEN custom_template ELSE config.customTemplate
        prompt == create_prompt_content(use_default_template, template)
        answer == provider_generate(provider, backend)
        extracted == extract_message_from_raw_response(Str(answer.text))
        outcome(r, step, called) ==
            [raised |-> r.raised, exc |-> r.exc, value |-> r.value,
             failed |-> step, backend_called |-> called]
    IN  IF analysis.raised THEN outcome(analysis, "analyze_diff", FALSE)
        ELSE IF prompt.raised THEN outcome(prompt, "create_prompt_content", FALSE)
        ELSE IF provider \notin Providers
        THEN outcome(Raise("ValueError"), "get_provider", FALSE)
        ELSE IF extracted.raised
        THEN outcome(extracted, "extract_message_from_raw_response", TRUE)
        ELSE IF Strip(extracted.value) = <<>>
        THEN outcome(Raise("ValueError"), "empty message", TRUE)
        ELSE outcome(extracted, IF answer.failed THEN "backend" ELSE "none", TRUE)

\* generate_commit_message without its except clause
generate_commit_message_NoExcept(diff, provider, use_default_template, custom_template, config, backend) ==
    GenerateSteps(diff, provider, use_default_template, custom_template, config, backend)

generate_commit_message(diff, provider, use_default_template, custom_template, config, backend) ==
    LET r == GenerateSteps(diff, provider, use_default_template, custom_template, config,
                           backend)
    IN  IF r.raised
        THEN [r EXCEPT !.raised = FALSE, !.exc = "", !.value = ErrorMessage(r.exc)]
        ELSE r


(***************************************************************************)
(* cli/ui.edit_commit_message, cli/ui.perform_commit and the tests that    *)
(* end cli/commands.commit_command before it generates anything            *)
(***************************************************************************)
\* what the editor process did with the temporary file: "saved" (exit 0, the
\* file holds text), "failed" (non-zero exit, CalledProcessError), "missing"
\* (the program does not exist, FileNotFoundError)
Editor(kind, text) == [kind |-> kind, text |-> text]

NoEditor == Editor("", <<>>)

edit_commit_message(initial_message, editor) ==
    CASE editor.kind = "saved" -> Return(Strip(editor.text))
      [] editor.kind = "failed" -> Return(initial_message)
      [] OTHER -> Raise("FileNotFoundError")

\* perform_commit running git whatever the answer to Confirm.ask
perform_commit_NoConfirm(message, confirm, git_ok) ==
    [git_runs |-> 1,
     committed |-> git_ok /\ Strip(message) # <<>>,
     message |-> IF git_ok /\ Strip(message) # <<>> THEN message ELSE <<>>]

\* perform_commit(message): confirm is the answer to Confirm.ask, git_ok whether
\* "git commit -m message" can succeed; git refuses an empty message, and the
\* CalledProcessError of a failed commit is caught and logged
perform_commit(message, confirm, git_ok) ==
    IF ~confirm
    THEN [git_runs |-> 0, committed |-> FALSE, message |-> <<>>]
    ELSE [git_runs |-> 1,
          committed |-> git_ok /\ Strip(message) # <<>>,
          message |-> IF git_ok /\ Strip(message) # <<>> THEN message ELSE <<>>]

\* provider = provider or CONFIG.get_ai_provider() or "ollama"
ProviderInUse(provider, configured) ==
    IF provider # "" THEN provider ELSE IF configured # "" THEN configured ELSE "ollama"

\* commit_command testing the staging area only
EarlyReturn_StagingOnly(has_changes, listed, provider) ==
    IF ~has_changes THEN "no staged changes" ELSE ""

\* the returns of commit_command that come before generate_commit_message, ""
\* when none is taken; listed is the outcome of get_staged_files(), and an
\* exception is caught by the except clause of commit_command
EarlyReturn(has_changes, listed, provider) ==
    IF ~has_changes THEN "no staged changes"
    ELSE IF listed.raised THEN "error"
    ELSE IF listed.value = <<>> THEN "no changes to commit"
    ELSE IF provider \notin Providers THEN "unsupported provider"
    ELSE ""

(***************************************************************************)
(* The inputs of the calls.                                                *)
(***************************************************************************)
DefaultMaxLength == 72

\* commit.maxLength of gitmuse.json
MaxLengths == {40, DefaultMaxLength}

TemplateOk == <<"Commit for ", "{files_summary}">>

TemplateBad == <<"Commit by ", "{author}", " for ", "{files_summary}">>

Config(maxLength, customTemplate) == [maxLength |-> maxLength, customTemplate |-> customTemplate]

DefaultConfig == Config(DefaultMaxLength, <<>>)

Backend(available, request_fails, content) ==
    [available |-> available, request_fails |-> request_fails, content |-> content]

NoBackend == Backend(FALSE, FALSE, <<>>)

Env(provider, use_default_template, custom_template, config, backend) ==
    [provider |-> provider, use_default_template |-> use_default_template,
     custom_template |-> custom_template, config |-> config, backend |-> backend]

IdleEnv == Env("ollama", TRUE, <<>>, DefaultConfig, NoBackend)

Fenced(text) == <<"fence", "json", NL>> \o text \o <<NL, "fence">>

Garbage == <<"a", "s", "d", "f", " ", "q">>

ProseThenJson == <<"H", "i", ":", NL>> \o JsonText("full")

JsonThenProse == JsonText("full") \o <<NL, "o", "k">>

NoteLed == <<"Note:", " ", "h", "i", NL, "memo", " ", "t", NL, "-", " ", "a">>

IndentedNote == <<"bug", " ", "t", NL, " ", "IMPORTANT:", " ", "h", "i">>

Rendered ==
    <<"bug", " ">> \o FixX \o <<NL, NL, "bug", " ">> \o BugCat \o <<":", NL, "-", " ">>
    \o FixedY \o <<NL, NL>> \o Done

\* what a backend may answer
Contents ==
    {JsonText(k) : k \in ObjectKeys}
    \cup {Fenced(JsonText("full")), Fenced(JsonText("two")), Fenced(Garbage),
          ProseThenJson, JsonThenProse, ListText, IntText, NullText, QuotedText,
          Garbage, <<>>, <<" ", NL, " ">>, Rendered, NoteLed, IndentedNote,
          <<"fence", "backtick">>, KeyNotSet, FailedToGenerate, EmptyAnswer}

RawResponses == {Str(c) : c \in Contents} \cup {None}

CommitDatas ==
    {Objects[k] : k \in ObjectKeys}
    \cup {Scalar("str", FixX), Scalar("list", <<>>), Scalar("int", <<>>),
          Scalar("NoneType", <<>>)}

\* the diff argument of generate_commit_message
GenerateDiffs ==
    { <<>>,
      DiffBlock([status |-> "A", file_path |-> PathA], GitDiffText("added", PathA)),
      DiffBlock([status |-> "A", file_path |-> PathA], GitDiffText("added", PathA))
        \o DiffBlock([status |-> "M", file_path |-> PathB], GitDiffText("modified", PathB)),
      DiffBlock([status |-> "M", file_path |-> PathC], GitDiffText("mode", PathC)) }

GenerateContents ==
    {JsonText("full"), JsonText("bare"), JsonText("inttitle"), Fenced(JsonText("two")),
     ProseThenJson, ListText, Garbage, <<>>, NoteLed, Rendered}

GenerateBackends ==
    {NoBackend, Backend(TRUE, TRUE, <<>>)}
    \cup {Backend(TRUE, FALSE, c) : c \in GenerateContents}

GenerateEnvs ==
    {Env(p, t[1], t[2], Config(DefaultMaxLength, t[3]), b) :
        p \in Providers \cup {"gemini"},
        t \in {<<TRUE, <<>>, <<>>>>, <<FALSE, TemplateOk, <<>>>>,
               <<FALSE, TemplateBad, <<>>>>, <<FALSE, <<>>, TemplateOk>>},
        b \in GenerateBackends}

\* classifications handed to summarize_changes: n entries, all in one category or
\* spread over the four, each path once or each path twice
MaxEntries == 6

EntryExts == << <<".", "p", "y">>, <<".", "m", "d">>, <<".", "j", "s", "o", "n">>, <<>> >>

EntryFile(i) == <<"f", ToString(i)>> \o EntryExts[(i % 4) + 1]

Classification(n, spread, twice) ==
    LET category(i) == IF spread THEN Categories[((i - 1) % 4) + 1] ELSE "modified"
        entry(i) == [file |-> EntryFile(IF twice THEN (i + 1) \div 2 ELSE i),
                     content |-> <<"+", "x">>]
    IN  [c \in Range(Categories) |->
            LET mine == SelectSeq([i \in 1..n |-> i], LAMBDA i : category(i) = c)
            IN  [j \in 1..Len(mine) |-> entry(mine[j])]]

Classifications ==
    {Classification(n, spread, twice) :
        n \in 0..MaxEntries, spread \in BOOLEAN, twice \in BOOLEAN}

\* lines that "git diff --cached --name-status" can print, and two it cannot
StatusLines ==
    { <<"A", TAB>> \o PathA,
      <<"M", TAB>> \o PathB,
      <<"D", TAB>> \o PathC,
      <<"R100", TAB>> \o PathA \o <<TAB>> \o PathB,
      <<"R095", TAB>> \o PathA \o <<TAB>> \o PathB,
      <<"T", TAB>> \o PathA,
      <<"M", " ">> \o PathB,
      <<>> }

MaxLines == 2

RECURSIVE LineLists(_)
LineLists(n) ==
    IF n = 0 THEN {<<>>}
    ELSE LineLists(n - 1)
         \cup {Append(l, x) : l \in {k \in LineLists(n - 1) : Len(k) = n - 1},
                              x \in StatusLines}

\* the CompletedProcess of the query: git's lines, or return code 129 and no
\* output outside a working tree
GitResults ==
    {[returncode |-> 0, stdout |-> l] : l \in LineLists(MaxLines)}
    \cup {[returncode |-> 129, stdout |-> <<>>]}

\* should_ignore's arguments for a path that may or may not be staged
PathDA == <<"d", "/">> \o PathA

QueriedPaths == {PathA, PathDA, <<"d", "/">> \o PathC, <<"s", "r", "c", "/">> \o PathB, PathL}

QueriedPatternSets ==
    PatternSets
    \cup { {<<"d", "*">>}, {<<"*", ".", "p", "y">>}, {PathA}, {<<"d", "/", "*">>},
           {<<"s", "?", "?">>}, {<<"?", ".", "p", "y">>, <<"y", "*">>} }

QueriedStaged ==
    { <<>>, <<[status |-> "M", file_path |-> PathA]>>,
      <<[status |-> "A", file_path |-> PathDA], [status |-> "M", file_path |-> PathL]>> }

\* diff texts whose records carry a status code outside A, M, D, R*: T (type
\* change) over a content diff, C100 (copy) over git's copy headers, and X
AnalyzeDiffs ==
    { DiffBlock([status |-> "T", file_path |-> PathA], GitDiffText("modified", PathA)),
      DiffBlock([status |-> "C100", file_path |-> PathB],
                DiffGitLine(PathA, PathB)
                \o <<"similarity index", " 100%", NL, "copy from", " ">> \o PathA
                \o <<NL, "copy to", " ">> \o PathB \o <<NL>>),
      DiffBlock([status |-> "A", file_path |-> PathA], GitDiffText("added", PathA))
        \o DiffBlock([status |-> "X", file_path |-> PathB], GitDiffText("mode", PathB)),
      DiffBlock([status |-> "R100", file_path |-> PathA], GitDiffText("renamed", PathA)) }

\* a second run of summarize_changes is made only on classifications of at most
\* this many distinct paths
MaxRerunFiles == 2

(***************************************************************************)
(* The calls.  Each behaviour is one call of one function: Init fixes the  *)
(* function and its arguments, the action applies it.                      *)
(***************************************************************************)
\* a process that has called nothing yet
NoCache ==
    [staged |-> [hit |-> FALSE, value |-> <<>>],
     patterns |-> [hit |-> FALSE, value |-> {}],
     gitignore |-> <<>>, calls |-> 0, last |-> "",
     first_staged |-> [set |-> FALSE, value |-> <<>>],
     first_patterns |-> [set |-> FALSE, value |-> {}],
     staged_requeries |-> 0, patterns_requeries |-> 0]

\* commit_command not called
NoCommand ==
    [has_changes |-> FALSE, provider |-> "", configured |-> "", outcome |-> "",
     generated |-> FALSE,
     backend_called |-> FALSE, generated_msg |-> <<>>, commit_msg |-> <<>>,
     edit |-> "", editor |-> NoEditor, commit |-> "", confirm |-> "",
     git_runs |-> 0, committed |-> FALSE, committed_msg |-> <<>>,
     success_reported |-> FALSE, cancel_reported |-> FALSE]

\* no git query made
NoGit == [returncode |-> 0, stdout |-> <<>>]

Idle ==
    /\ staged_files = <<>>
    /\ ignore_patterns = {}
    /\ raw_response = None
    /\ commit_data = Scalar("NoneType", <<>>)

InitGetCommitFiles ==
    /\ pc = "get_commit_files"
    /\ staged_files \in StagedLists(MaxFiles)
    /\ ignore_patterns \in PatternSets
    /\ env = IdleEnv
    /\ diff_content = <<>>
    /\ raw_response = None
    /\ commit_data = Scalar("NoneType", <<>>)

\* custom templates handed to create_prompt_content: empty, without any field,
\* with some of the fields, with all of them, with a field nobody fills
TemplatePlain == <<"Write a commit message">>

TemplateSome == <<"{keywords}", NL, "{changes_summary}">>

TemplateLate == <<"{detailed_changes}", " signed ", "{author}">>

PromptTemplates ==
    {<<>>, TemplatePlain, TemplateOk, TemplateSome, DefaultTemplate, TemplateBad, TemplateLate}

InitCreatePrompt ==
    /\ pc = "create_prompt_content"
    /\ env \in {Env("ollama", d, t, DefaultConfig, NoBackend) :
                    d \in BOOLEAN, t \in PromptTemplates}
    /\ diff_content = <<>>
    /\ changes_dict = EmptyChanges
    /\ git_result = NoGit
    /\ queried_path = <<>>
    /\ Idle

InitGenerate ==
    /\ pc = "generate_commit_message"
    /\ env \in GenerateEnvs
    /\ diff_content \in GenerateDiffs
    /\ Idle

InitExtract ==
    /\ pc = "extract_message_from_raw_response"
    /\ raw_response \in RawResponses
    /\ env = IdleEnv
    /\ diff_content = <<>>
    /\ staged_files = <<>>
    /\ ignore_patterns = {}
    /\ commit_data = Scalar("NoneType", <<>>)

InitFormat ==
    /\ pc = "format_commit_message"
    /\ commit_data \in CommitDatas
    /\ env \in {Env("ollama", TRUE, <<>>, Config(m, <<>>), NoBackend) : m \in MaxLengths}
    /\ diff_content = <<>>
    /\ staged_files = <<>>
    /\ ignore_patterns = {}
    /\ raw_response = None

\* calls made by one process
MaxCalls == 3

\* what the staging area can hold while the process runs
ProcessGitResults ==
    { [returncode |-> 0, stdout |-> <<>>],
      [returncode |-> 0, stdout |-> << <<"A", TAB>> \o PathA >>],
      [returncode |-> 0, stdout |-> << <<"A", TAB>> \o PathA, <<"M", TAB>> \o PathB >>],
      [returncode |-> 0, stdout |-> << <<"T", TAB>> \o PathA >>] }

\* the lines of the .gitignore files while the process runs
GitignoreLines ==
    { <<>>,
      << <<"#", " ", "l", "o", "c", "k", "s", NL>>, <<"*", ".", "l", "o", "c", "k", NL>>, <<NL>> >>,
      << <<"*", ".", "l", "o", "c", "k", NL>>, <<" ", "/", "a", ".", "p", "y", " ", NL>> >> }

\* a process that is about to call the two cached functions
InitProcess ==
    /\ pc = "process"
    /\ git_result \in ProcessGitResults
    /\ changes_dict = EmptyChanges
    /\ env = IdleEnv
    /\ diff_content = <<>>
    /\ queried_path = <<>>
    /\ Idle

\* what the editor may leave behind: a new message, a new message with blank
\* lines around it, nothing at all, a failure after the text was changed, or
\* no editor at all
EditedText == <<"f", "i", "x", ":", " ", "y">>

Editors ==
    { Editor("saved", EditedText), Editor("saved", <<NL>> \o EditedText \o <<NL, NL>>),
      Editor("saved", <<" ", NL>>), Editor("failed", EditedText), Editor("missing", <<>>) }

CommandBackends ==
    {NoBackend, Backend(TRUE, FALSE, JsonText("full")), Backend(TRUE, FALSE, Garbage)}

\* commit_command(provider) is called: the outcome of "git diff --cached --quiet",
\* the provider argument, the configured provider and template, the backend
InitCommitCommand ==
    /\ pc = "commit_command"
    /\ git_result \in ProcessGitResults
    /\ env \in {Env(p, t = <<>>, t, DefaultConfig, b) :
                    p \in {"", "ollama"}, t \in {<<>>, TemplateBad}, b \in CommandBackends}
    /\ changes_dict = EmptyChanges
    /\ diff_content = <<>>
    /\ queried_path = <<>>
    /\ Idle

InitGetStagedFiles ==
    /\ pc = "get_staged_files"
    /\ git_result \in GitResults
    /\ changes_dict = EmptyChanges
    /\ env = IdleEnv
    /\ diff_content = <<>>
    /\ queried_path = <<>>
    /\ Idle

InitShouldIgnore ==
    /\ pc = "should_ignore"
    /\ queried_path \in QueriedPaths
    /\ ignore_patterns \in QueriedPatternSets
    /\ staged_files \in QueriedStaged
    /\ changes_dict = EmptyChanges
    /\ env = IdleEnv
    /\ diff_content = <<>>
    /\ git_result = NoGit
    /\ raw_response = None
    /\ commit_data = Scalar("NoneType", <<>>)

InitAnalyze ==
    /\ pc = "analyze_diff"
    /\ diff_content \in AnalyzeDiffs
    /\ changes_dict = EmptyChanges
    /\ env = IdleEnv
    /\ git_result = NoGit
    /\ queried_path = <<>>
    /\ Idle

InitSummarize ==
    /\ pc = "summarize_changes"
    /\ changes_dict \in Classifications
    /\ env = IdleEnv
    /\ diff_content = <<>>
    /\ git_result = NoGit
    /\ queried_path = <<>>
    /\ Idle

Init ==
    /\ files_to_commit = <<>>
    /\ ignored_files = <<>>
    /\ ret = NoCall
    /\ earlier = NoCall
    /\ diff_outcomes = <<>>
    /\ \/ /\ \/ /\ InitGetCommitFiles \/ InitGenerate \/ InitExtract \/ InitFormat
                /\ changes_dict = EmptyChanges
                /\ git_result = NoGit
                /\ queried_path = <<>>
             \/ InitGetStagedFiles
             \/ InitShouldIgnore
             \/ InitAnalyze
             \/ InitSummarize
             \/ InitCreatePrompt
          /\ cache = NoCache
          /\ cmd = NoCommand
       \/ /\ InitProcess
          /\ cache \in {[NoCache EXCEPT !.gitignore = g] : g \in GitignoreLines}
          /\ cmd = NoCommand
       \/ /\ InitCommitCommand
          /\ cache \in {[NoCache EXCEPT !.gitignore = g] : g \in GitignoreLines}
          /\ cmd \in {[NoCommand EXCEPT !.has_changes = h, !.provider = p] :
                         h \in BOOLEAN, p \in {"", "openai", "gemini"}}

\* files_to_commit, ignored_files, diff_content = get_commit_files(staged_files, ignore_patterns)
GetCommitFiles ==
    /\ pc = "get_commit_files"
    /\ \E outcomes \in [1..Len(staged_files) ->
                            UNION {GetDiffOutcomes(st) : st \in Statuses}] :
        /\ \A i \in 1..Len(staged_files) :
               outcomes[i] \in GetDiffOutcomes(staged_files[i].status)
        /\ diff_outcomes' = outcomes
        /\ LET r == get_commit_files(staged_files, ignore_patterns, outcomes)
           IN  /\ files_to_commit' = r.files_to_commit
               /\ ignored_files' = r.ignored_files
               /\ diff_content' = r.diff_content
    /\ pc' = "get_commit_files returned"
    /\ UNCHANGED <<staged_files, ignore_patterns, env, raw_response, commit_data, ret,
                   changes_dict, git_result, queried_path, earlier,
                   cache, cmd>>

\* changes_dict = analyze_diff(diff_content)
AnalyzeDiff ==
    /\ pc \in {"get_commit_files returned", "analyze_diff"}
    /\ ret' = analyze_diff(diff_content)
    /\ changes_dict' = IF ret'.raised THEN EmptyChanges ELSE ret'.value
    /\ pc' = "analyze_diff returned"
    /\ UNCHANGED <<staged_files, ignore_patterns, files_to_commit, ignored_files,
                   diff_content, env, raw_response, commit_data,
                   git_result, queried_path, earlier,
                   diff_outcomes, cache, cmd>>

\* commit_msg = generate_commit_message(diff_content, provider, use_default_template,
\*                                      custom_template)
GenerateCommitMessage ==
    /\ pc = "generate_commit_message"
    /\ ret' = generate_commit_message(diff_content, env.provider, env.use_default_template,
                                      env.custom_template, env.config, env.backend)
    /\ raw_response' = IF ret'.backend_called
                       THEN Str(provider_generate(env.provider, env.backend).text)
                       ELSE None
    /\ IF cmd.has_changes
       THEN /\ cmd' = [cmd EXCEPT !.generated = TRUE,
                                  !.backend_called = ret'.backend_called,
                                  !.generated_msg = ret'.value,
                                  !.commit_msg = ret'.value]
            /\ pc' = "edit prompt"
       ELSE /\ cmd' = cmd
            /\ pc' = "generate_commit_message returned"
    /\ UNCHANGED <<staged_files, ignore_patterns, files_to_commit, ignored_files,
                   diff_content, env, commit_data,
                   changes_dict, git_result, queried_path, earlier,
                   diff_outcomes, cache>>

\* extract_message_from_raw_response(raw_response)
ExtractMessage ==
    /\ pc = "extract_message_from_raw_response"
    /\ ret' = extract_message_from_raw_response(raw_response)
    /\ pc' = "extract_message_from_raw_response returned"
    /\ UNCHANGED <<staged_files, ignore_patterns, files_to_commit, ignored_files,
                   diff_content, env, raw_response, commit_data,
                   changes_dict, git_result, queried_path, earlier,
                   diff_outcomes, cache, cmd>>

\* format_commit_message(commit_data)
FormatCommitMessage ==
    /\ pc = "format_commit_message"
    /\ ret' = format_commit_message(commit_data)
    /\ pc' = "format_commit_message returned"
    /\ UNCHANGED <<staged_files, ignore_patterns, files_to_commit, ignored_files,
                   diff_content, env, raw_response, commit_data,
                   changes_dict, git_result, queried_path, earlier,
                   diff_outcomes, cache, cmd>>

\* changes = summarize_changes(changes_dict)
SummarizeChanges ==
    /\ \/ pc = "summarize_changes"
       \/ pc = "analyze_diff returned" /\ ~ret.raised
    /\ \E files_changed \in SetOrders(ChangedFiles(changes_dict)) :
           ret' = Return(summarize_changes(changes_dict, files_changed))
    /\ pc' = "summarize_changes returned"
    /\ UNCHANGED <<staged_files, ignore_patterns, files_to_commit, ignored_files,
                   diff_content, env, raw_response, commit_data, changes_dict,
                   git_result, queried_path, earlier,
                   diff_outcomes, cache, cmd>>

\* summarize_changes(changes_dict) once more, in another run of the program
SummarizeChangesAgain ==
    /\ pc = "summarize_changes returned"
    /\ Cardinality(ChangedFiles(changes_dict)) <= MaxRerunFiles
    /\ earlier' = ret
    /\ \E files_changed \in SetOrders(ChangedFiles(changes_dict)) :
           ret' = Return(summarize_changes(changes_dict, files_changed))
    /\ pc' = "summarize_changes returned again"
    /\ UNCHANGED <<staged_files, ignore_patterns, files_to_commit, ignored_files,
                   diff_content, env, raw_response, commit_data, changes_dict,
                   git_result, queried_path,
                   diff_outcomes, cache, cmd>>

\* get_diff_summary(diff_content)
GetDiffSummary ==
    /\ pc = "get_commit_files returned"
    /\ ret' = get_diff_summary(diff_content)
    /\ pc' = "get_diff_summary returned"
    /\ UNCHANGED <<staged_files, ignore_patterns, files_to_commit, ignored_files,
                   diff_content, env, raw_response, commit_data, changes_dict,
                   git_result, queried_path, earlier,
                   diff_outcomes, cache, cmd>>

\* staged_files = get_staged_files()
GetStagedFiles ==
    /\ pc = "get_staged_files"
    /\ ret' = get_staged_files(git_result)
    /\ staged_files' = ret'.value
    /\ pc' = "get_staged_files returned"
    /\ UNCHANGED <<ignore_patterns, files_to_commit, ignored_files, diff_content, env,
                   raw_response, commit_data, changes_dict, git_result, queried_path,
                   earlier,
                   diff_outcomes, cache, cmd>>

\* should_ignore(queried_path, ignore_patterns, staged_files)
ShouldIgnore ==
    /\ pc = "should_ignore"
    /\ ret' = Return(should_ignore(queried_path, ignore_patterns, staged_files))
    /\ pc' = "should_ignore returned"
    /\ UNCHANGED <<staged_files, ignore_patterns, files_to_commit, ignored_files,
                   diff_content, env, raw_response, commit_data, changes_dict,
                   git_result, queried_path, earlier,
                   diff_outcomes, cache, cmd>>

\* create_prompt_content(changes, use_default_template, custom_template)
CreatePromptContent ==
    /\ pc = "create_prompt_content"
    /\ ret' = create_prompt_content(env.use_default_template, env.custom_template)
    /\ pc' = "create_prompt_content returned"
    /\ UNCHANGED <<staged_files, ignore_patterns, files_to_commit, ignored_files,
                   diff_content, env, raw_response, commit_data, changes_dict,
                   git_result, queried_path, earlier,
                   diff_outcomes, cache, cmd>>

\* get_staged_files() called through its cache
CallGetStagedFiles ==
    /\ pc = "process"
    /\ cache.calls < MaxCalls
    /\ LET call == lru_cache(cache.staged, get_staged_files(git_result))
       IN  /\ ret' = call.ret
           /\ cache' = [cache EXCEPT
                  !.staged = call.entry,
                  !.calls = @ + 1,
                  !.last = "get_staged_files",
                  !.first_staged = IF ~@.set /\ ~call.ret.raised
                                   THEN [set |-> TRUE, value |-> call.ret.value] ELSE @,
                  !.staged_requeries = IF cache.first_staged.set /\ call.ran
                                       THEN @ + 1 ELSE @]
    /\ UNCHANGED <<pc, staged_files, ignore_patterns, files_to_commit, ignored_files,
                   diff_content, env, raw_response, commit_data, changes_dict,
                   git_result, queried_path, earlier, diff_outcomes, cmd>>

\* get_gitignore_patterns() called through its cache
CallGetGitignorePatterns ==
    /\ pc = "process"
    /\ cache.calls < MaxCalls
    /\ LET call == lru_cache(cache.patterns, get_gitignore_patterns(cache.gitignore))
       IN  /\ ret' = call.ret
           /\ cache' = [cache EXCEPT
                  !.patterns = call.entry,
                  !.calls = @ + 1,
                  !.last = "get_gitignore_patterns",
                  !.first_patterns = IF ~@.set /\ ~call.ret.raised
                                     THEN [set |-> TRUE, value |-> call.ret.value] ELSE @,
                  !.patterns_requeries = IF cache.first_patterns.set /\ call.ran
                                         THEN @ + 1 ELSE @]
    /\ UNCHANGED <<pc, staged_files, ignore_patterns, files_to_commit, ignored_files,
                   diff_content, env, raw_response, commit_data, changes_dict,
                   git_result, queried_path, earlier, diff_outcomes, cmd>>

\* somebody stages or unstages files while the process runs
StagingAreaChanges ==
    /\ pc = "process"
    /\ cache.calls < MaxCalls
    /\ git_result' \in ProcessGitResults \ {git_result}
    /\ UNCHANGED <<pc, staged_files, ignore_patterns, files_to_commit, ignored_files,
                   diff_content, env, raw_response, commit_data, changes_dict,
                   queried_path, earlier, diff_outcomes, cache, cmd, ret>>

\* somebody edits a .gitignore file while the process runs
GitignoreChanges ==
    /\ pc = "process"
    /\ cache.calls < MaxCalls
    /\ \E g \in GitignoreLines \ {cache.gitignore} :
           cache' = [cache EXCEPT !.gitignore = g]
    /\ UNCHANGED <<pc, staged_files, ignore_patterns, files_to_commit, ignored_files,
                   diff_content, env, raw_response, commit_data, changes_dict,
                   git_result, queried_path, earlier, diff_outcomes, cmd, ret>>

\* commit_command up to its call of generate_commit_message, as a function of
\* what it reads: the tests that return early, the patterns and staged files,
\* and get_commit_files once the list is known to be non-empty
commit_command_start(command, listed, lines, outcomes, configured) ==
    LET provider == ProviderInUse(command.provider, configured)
        early == EarlyReturn(command.has_changes, listed, provider)
        loaded == early \notin {"no staged changes", "error"}
        collected == early \in {"", "unsupported provider"}
        patterns == IF loaded THEN get_gitignore_patterns(lines).value ELSE {}
        staged == IF loaded THEN listed.value ELSE <<>>
        r == IF collected
             THEN get_commit_files(staged, patterns, outcomes)
             ELSE [files_to_commit |-> <<>>, ignored_files |-> <<>>, diff_content |-> <<>>]
    IN  [early |-> early, provider |-> provider,
         ignore_patterns |-> patterns, staged_files |-> staged,
         files_to_commit |-> r.files_to_commit, ignored_files |-> r.ignored_files,
         diff_content |-> r.diff_content,
         diff_outcomes |-> IF collected THEN outcomes ELSE <<>>]

\* commit_command runs up to its call of generate_commit_message, to which it
\* hands the provider in use, or returns early
CommitCommandStart ==
    /\ pc = "commit_command"
    /\ \E outcomes \in [1..Len(get_staged_files(git_result).value) ->
                            UNION {GetDiffOutcomes(st) : st \in Statuses}] :
          /\ \A i \in DOMAIN outcomes :
                 outcomes[i] \in GetDiffOutcomes(get_staged_files(git_result).value[i].status)
          /\ \E run \in {commit_command_start(cmd, get_staged_files(git_result),
                                               cache.gitignore, outcomes, env.provider)} :
                /\ ignore_patterns' = run.ignore_patterns
                /\ staged_files' = run.staged_files
                /\ files_to_commit' = run.files_to_commit
                /\ ignored_files' = run.ignored_files
                /\ diff_content' = run.diff_content
                /\ diff_outcomes' = run.diff_outcomes
                /\ IF run.early = ""
                   THEN /\ env' = [env EXCEPT !.provider = run.provider]
                        /\ cmd' = [cmd EXCEPT !.configured = env.provider]
                        /\ pc' = "generate_commit_message"
                   ELSE /\ env' = env
                        /\ cmd' = [cmd EXCEPT !.configured = env.provider,
                                              !.outcome = run.early]
                        /\ pc' = "commit_command returned"
    /\ UNCHANGED <<raw_response, commit_data, changes_dict, git_result, queried_path,
                   earlier, cache, ret>>

\* the answer to "Do you want to edit the commit message?", and the editor
AnswerEditPrompt ==
    /\ pc = "edit prompt"
    /\ \/ /\ cmd' = [cmd EXCEPT !.edit = "n"]
          /\ pc' = "commit prompt"
       \/ \E editor \in Editors :
             LET r == edit_commit_message(cmd.commit_msg, editor)
             IN  IF r.raised
                 THEN /\ cmd' = [cmd EXCEPT !.edit = "y", !.editor = editor,
                                            !.outcome = "error"]
                      /\ pc' = "commit_command returned"
                 ELSE /\ cmd' = [cmd EXCEPT !.edit = "y", !.editor = editor,
                                            !.commit_msg = r.value]
                      /\ pc' = "commit prompt"
    /\ UNCHANGED <<staged_files, ignore_patterns, files_to_commit, ignored_files,
                   diff_content, env, raw_response, commit_data, changes_dict,
                   git_result, queried_path, earlier, diff_outcomes, cache, ret>>

\* the answer to "Do you want to commit with this message?"
AnswerCommitPrompt ==
    /\ pc = "commit prompt"
    /\ \/ /\ cmd' = [cmd EXCEPT !.commit = "y"]
          /\ pc' = "confirm prompt"
       \/ /\ cmd' = [cmd EXCEPT !.commit = "n", !.cancel_reported = TRUE,
                                 !.outcome = "cancelled"]
          /\ pc' = "commit_command returned"
    /\ UNCHANGED <<staged_files, ignore_patterns, files_to_commit, ignored_files,
                   diff_content, env, raw_response, commit_data, changes_dict,
                   git_result, queried_path, earlier, diff_outcomes, cache, ret>>

\* perform_commit(commit_msg) from its Confirm.ask on, and what commit_command
\* logs and prints once perform_commit has returned
AnswerConfirm ==
    /\ pc = "confirm prompt"
    /\ \E confirm, git_ok \in BOOLEAN :
           LET r == perform_commit(cmd.commit_msg, confirm, git_ok)
           IN  cmd' = [cmd EXCEPT !.confirm = IF confirm THEN "y" ELSE "n",
                                  !.git_runs = r.git_runs,
                                  !.committed = r.committed,
                                  !.committed_msg = r.message,
                                  !.success_reported = TRUE,
                                  !.outcome = "finished"]
    /\ pc' = "commit_command returned"
    /\ UNCHANGED <<staged_files, ignore_patterns, files_to_commit, ignored_files,
                   diff_content, env, raw_response, commit_data, changes_dict,
                   git_result, queried_path, earlier, diff_outcomes, cache, ret>>

\* extract_message_from_raw_response on the message format_commit_message returned
ExtractFormatted ==
    /\ pc = "format_commit_message returned"
    /\ ~ret.raised
    /\ commit_data.type = "dict"
    /\ earlier' = ret
    /\ raw_response' = Str(ret.value)
    /\ ret' = extract_message_from_raw_response(raw_response')
    /\ pc' = "extract_message_from_raw_response returned"
    /\ UNCHANGED <<staged_files, ignore_patterns, files_to_commit, ignored_files,
                   diff_content, env, commit_data, changes_dict, git_result,
                   queried_path, diff_outcomes, cache, cmd>>

Next ==
    \/ GetStagedFiles
    \/ ExtractFormatted
    \/ CommitCommandStart
    \/ AnswerEditPrompt
    \/ AnswerCommitPrompt
    \/ AnswerConfirm
    \/ CallGetStagedFiles
    \/ CallGetGitignorePatterns
    \/ StagingAreaChanges
    \/ GitignoreChanges
    \/ CreatePromptContent
    \/ ShouldIgnore
    \/ GetCommitFiles
    \/ AnalyzeDiff
    \/ SummarizeChanges
    \/ SummarizeChangesAgain
    \/ GetDiffSummary
    \/ GenerateCommitMessage
    \/ ExtractMessage
    \/ FormatCommitMessage

Spec == Init /\ [][Next]_vars


(***************************************************************************)
(* Properties.                                                             *)
(***************************************************************************)
Collected == pc \in {"get_commit_files returned", "analyze_diff returned"}

\* diff_content is what get_commit_files built, not a text handed in directly
CollectedDiff == diff_content # <<>> => files_to_commit # <<>>

IsIgnored(file) == [file_path |-> file.file_path] \in Range(ignored_files)

\* how many times x occurs in the sequence s
Count(s, x) == Cardinality({i \in 1..Len(s) : s[i] = x})

\* the number of blocks of diff_content that come from file
BlocksOf(file) == Count(Split(diff_content, NL), <<"File: ">> \o file.file_path)

\* C1: files_to_commit and ignored_files partition the staged files: every staged
\* file is in exactly one of the two lists, once, and the lengths add up.
C1_Partition ==
    Collected =>
        /\ Len(files_to_commit) + Len(ignored_files) = Len(staged_files)
        /\ \A i \in 1..Len(staged_files) :
               Count(files_to_commit, staged_files[i])
               + Count(ignored_files, [file_path |-> staged_files[i].file_path]) = 1

\* C2: should_ignore is False for the path of every staged file, whatever the
\* patterns are, so no staged file ever reaches ignored_files.
C2_StagedNeverIgnored ==
    /\ \A i \in 1..Len(staged_files) :
           ~should_ignore(staged_files[i].file_path, ignore_patterns, staged_files)
    /\ Collected => \A i \in 1..Len(staged_files) : ~IsIgnored(staged_files[i])

\* a staged path that a pattern matches went through get_commit_files and was kept
C2_Witness ==
    /\ Collected
    /\ \E i \in 1..Len(staged_files) :
           /\ \E pattern \in ignore_patterns :
                  PatternHits(staged_files[i].file_path, pattern)
           /\ staged_files[i] \in Range(files_to_commit)

\* the mapping A -> added, M -> modified, D -> deleted, R* -> renamed
StatusCategory(status) ==
    CASE status = "A" -> "added"
      [] status = "M" -> "modified"
      [] status = "D" -> "deleted"
      [] OTHER -> "renamed"

\* the categories in which analyze_diff's result holds an entry for path,
\* one element per entry
EntriesOf(changes, path) ==
    {<<c, i>> \in Range(Categories) \X (1..(MaxFiles + 2)) :
        i <= Len(changes[c]) /\ changes[c][i].file = path}

\* C3: analyze_diff of the diff text built by get_commit_files holds exactly one
\* entry per staged file that is not ignored, in the category of the file's status.
C3_RoundTrip ==
    (pc = "analyze_diff returned" /\ CollectedDiff) =>
        /\ ~ret.raised
        /\ \A i \in 1..Len(staged_files) :
               ~IsIgnored(staged_files[i]) =>
                   \E e \in EntriesOf(ret.value, staged_files[i].file_path) :
                       /\ EntriesOf(ret.value, staged_files[i].file_path) = {e}
                       /\ e[1] = StatusCategory(staged_files[i].status)

Extracted == pc = "extract_message_from_raw_response returned"

\* C4: extract_message_from_raw_response returns a string for every response.
C4_ExtractNeverRaises == Extracted => ~ret.raised

Generated == pc = "generate_commit_message returned"

\* C5: generate_commit_message never lets an exception out; when a step failed,
\* the string it returns is not empty and begins with the fallback title.
C5_FallbackOnFailure ==
    Generated =>
        /\ ~ret.raised
        /\ ret.failed # "none" => ret.value # <<>> /\ StartsWith(ret.value, FallbackTitle)

\* the extractor raised inside generate_commit_message and the caller got the fallback
C5_Witness ==
    /\ Generated
    /\ ret.failed = "extract_message_from_raw_response"
    /\ ~ret.raised
    /\ StartsWith(ret.value, FallbackTitle)

\* the response as the extractor parses it: fence markers and backticks removed
Cleaned(raw) == StripSet(StripFences(raw.text), {"backtick"})

NotJson(raw) == ~raw.is_none /\ json_loads(Cleaned(raw)).raised

\* the lines of text, each stripped
StrippedLines(text) == {Strip(l) : l \in Range(Split(text, NL))}

IsObject(parsed) == ~parsed.raised /\ parsed.value.type = "dict"

MetaLine(line) == LineStarts(line, "Note:") \/ LineStarts(line, "IMPORTANT:")

\* C7: whole-response JSON first, then the brace-delimited substring, then freeform
\* text without the lines that start with Note: or IMPORTANT:; no output line
\* starts with either.
C7_ThreeStrategies ==
    (Extracted /\ ~raw_response.is_none) =>
        LET whole == json_loads(Cleaned(raw_response))
            inner == json_loads(BraceMatch(Cleaned(raw_response)))
        IN  /\ IsObject(whole) => ret = format_commit_message(whole.value)
            /\ (whole.raised /\ IsObject(inner)) => ret = format_commit_message(inner.value)
            /\ (whole.raised /\ ~IsObject(inner)) => ~ret.raised
            /\ ~ret.raised => \A l \in Range(Split(ret.value, NL)) : ~MetaLine(l)

Formatted == pc = "format_commit_message returned"

FirstLine(text) == Split(text, NL)[1]

HasTitle(data) ==
    data.type = "dict" /\ data.title.present /\ data.title.type = "str"
    /\ data.title.value # <<>>

\* C8: the first line of the formatted message is the title cut at the configured
\* commit.maxLength: at most that many characters, and a prefix of the title.
C8_TitleCutAtConfiguredLength ==
    (Formatted /\ HasTitle(commit_data) /\ ~ret.raised) =>
        FirstLine(ret.value) = Prefix(commit_data.title.value, env.config.maxLength)

\* the lines of the body the layout asks for, for the three shapes
LayoutBodyLines(body) ==
    IF body.type = "dict"
    THEN Flatten([i \in 1..Len(body.cats) |->
             <<body.cats[i].emoji \o <<" ">> \o body.cats[i].name \o <<":">>>>
             \o [j \in 1..Len(body.cats[i].changes) |->
                    <<"-", " ">> \o body.cats[i].changes[j]]
             \o << <<>> >>])
    ELSE IF body.type = "list" THEN body.items \o << <<>> >>
    ELSE <<body.text, <<>>>>

\* a commit_data whose body has one of the three shapes, with a title and a summary
WellFormed(data) ==
    /\ data.type = "dict"
    /\ data.title.present /\ data.title.type = "str" /\ data.title.value # <<>>
    /\ data.summary.present /\ data.summary.value # <<>>
    /\ data.body.present /\ data.body.type \in {"dict", "list", "str"}
    /\ \A i \in 1..Len(data.body.cats) :
           LET c == data.body.cats[i]
           IN  c.type = "dict" /\ c.has_emoji /\ c.changes_type = "list"

\* C9: for a mapping, a list and a string body alike the message is the title
\* (cut at fifty characters), a blank line, the body lines in the order given, a
\* blank line, and the summary as the last line.
C9_FormatLayout ==
    (Formatted /\ WellFormed(commit_data)) =>
        /\ ~ret.raised
        /\ Split(ret.value, NL) =
               <<Prefix(commit_data.title.value, TitleLimit), <<>>>>
               \o LayoutBodyLines(commit_data.body)
               \o <<commit_data.summary.value>>

\* a mapping of two categories was formatted
C9_Witness ==
    /\ Formatted
    /\ commit_data = Objects["two"]
    /\ ~ret.raised
    /\ Len(Split(ret.value, NL)) = 10

\* C10: each staged file is either ignored and absent from the diff text, or not
\* ignored and the source of exactly one block of it.
C10_IgnoredOrOneBlock ==
    Collected =>
        \A i \in 1..Len(staged_files) :
            \/ IsIgnored(staged_files[i]) /\ BlocksOf(staged_files[i]) = 0
            \/ ~IsIgnored(staged_files[i]) /\ BlocksOf(staged_files[i]) = 1


Summarized == pc \in {"summarize_changes returned", "summarize_changes returned again"}

\* changes_dict is the classification of the diff_content that get_commit_files built
FromDiff ==
    /\ CollectedDiff
    /\ ~analyze_diff(diff_content).raised
    /\ changes_dict = analyze_diff(diff_content).value

\* the number of entries of a classification
EntryCount(changes) ==
    Len(changes.added) + Len(changes.modified) + Len(changes.deleted) + Len(changes.renamed)

\* the entries of a classification, categories in the order of the dict
EntryList(changes) ==
    Flatten([c \in 1..Len(Categories) |->
                [i \in 1..Len(changes[Categories[c]]) |->
                    [category |-> Categories[c], file |-> changes[Categories[c]][i].file]]])

\* whether the sequence part occurs in s as a run of consecutive tokens
Contains(s, part) ==
    \E i \in 0..(Len(s) - Len(part)) : SubSeq(s, i + 1, i + Len(part)) = part

\* C11: detailed_changes holds one description per classified entry, that of the
\* k-th entry at position k; when the classification is that of the collected diff
\* text, their number is the number of staged files that gave a diff block.
C11_OneDescriptionPerEntry ==
    Summarized =>
        LET described == ret.value.detailed_changes
            entries == EntryList(changes_dict)
        IN  /\ Len(described) = EntryCount(changes_dict)
            /\ \A k \in 1..Len(entries) :
                   k <= Len(described)
                   /\ Head(described[k]) = Capitalize(entries[k].category)
                   /\ Contains(described[k], <<" file ">> \o entries[k].file \o <<": ">>)
            /\ FromDiff =>
                   Len(described) =
                       Cardinality({i \in 1..Len(staged_files) :
                                       ~IsIgnored(staged_files[i])
                                       /\ BlocksOf(staged_files[i]) = 1})

\* two staged files, one of which gave no diff block, were collected, classified
\* and summarized
C11_Witness ==
    /\ Summarized
    /\ FromDiff
    /\ Len(staged_files) = 2
    /\ Len(ret.value.detailed_changes) = 1

\* the part of files_summary before the overflow suffix, as a list of paths
ListedFiles(summary) ==
    LET cut == IndexOf(summary, " and ")
        listed == IF cut = 0 THEN summary ELSE Prefix(summary, cut - 1)
    IN  IF listed = <<>> THEN <<>> ELSE Split(listed, ", ")

OverflowSuffix(summary) ==
    LET cut == IndexOf(summary, " and ")
    IN  IF cut = 0 THEN <<>> ELSE DropN(summary, cut - 1)

\* C12: files_summary lists min(n, 5) of the n distinct changed paths, each once;
\* it has no suffix when n <= 5 and the suffix " and <n - 5> more files" when n > 5.
C12_FilesSummaryCap ==
    Summarized =>
        LET n == Cardinality(ChangedFiles(changes_dict))
            listed == ListedFiles(ret.value.files_summary)
            suffix == OverflowSuffix(ret.value.files_summary)
        IN  /\ Len(listed) = Min(n, FilesCap)
            /\ Range(listed) \subseteq ChangedFiles(changes_dict)
            /\ Cardinality(Range(listed)) = Len(listed)
            /\ n <= FilesCap => suffix = <<>>
            /\ n > FilesCap => suffix = <<" and ", ToString(n - FilesCap), " more files">>

\* six distinct paths were summarized: five listed and one more announced
C12_Witness ==
    /\ Summarized
    /\ Cardinality(ChangedFiles(changes_dict)) = FilesCap + 1
    /\ Len(ListedFiles(ret.value.files_summary)) = FilesCap
    /\ OverflowSuffix(ret.value.files_summary) = <<" and ", "1", " more files">>

\* C13: summarize_changes on the same classification in another run gives the
\* same files_summary.
C13_SameOrderEveryRun ==
    pc = "summarize_changes returned again" =>
        ret.value.files_summary = earlier.value.files_summary

\* the items of a comma-joined counts string
CountItems(summary) == IF summary = <<>> THEN <<>> ELSE Split(summary, ", ")

\* the counts string holds one item per category that has entries, with the number
\* of its entries, and no item for a category without entries
CountsMatch(summary, changes) ==
    LET items == CountItems(summary)
    IN  /\ Len(items) = Cardinality({c \in Range(Categories) : changes[c] # <<>>})
        /\ \A c \in Range(Categories) :
               LET mine == {i \in 1..Len(items) : Head(items[i]) = Capitalize(c)}
               IN  IF changes[c] = <<>> THEN mine = {}
                   ELSE \E i \in mine :
                            /\ mine = {i}
                            /\ items[i] = <<Capitalize(c), ": ", ToString(Len(changes[c])),
                                            " file(s)">>

\* C14: changes_summary and get_diff_summary hold one item "<Category>: <count>
\* file(s)" per category with at least one entry, none for an empty category, and
\* each count is the number of entries of the category.
C14_CategoryCounts ==
    /\ Summarized => CountsMatch(ret.value.changes_summary, changes_dict)
    /\ (pc = "get_diff_summary returned" /\ ~ret.raised) =>
           CountsMatch(ret.value, analyze_diff(diff_content).value)

\* a classification with empty categories and a category of two entries was
\* summarized
C14_Witness ==
    /\ Summarized
    /\ changes_dict.deleted = <<>>
    /\ Len(changes_dict.modified) = 2
    /\ ret.value.changes_summary = <<"Modified", ": ", "2", " file(s)">>


\* the status codes of the mapping: A, M, D and the rename codes
KnownStatus(code) == code \in {"A", "M", "D", "R100", "R095"}

\* the codes on the "Status:" lines of a diff text
StatusCodes(diff) ==
    {l[2] : l \in {x \in Range(Split(diff, NL)) : LineStarts(x, "Status: ") /\ Len(x) >= 2}}

\* C15: when a record of the diff text carries a status code outside A, M, D, R*,
\* analyze_diff raises instead of classifying the record.
C15_UnknownStatusRaises ==
    (pc = "analyze_diff returned" /\ \E code \in StatusCodes(diff_content) : ~KnownStatus(code))
        => ret.raised


StagedListed == pc = "get_staged_files returned"

\* a line of exactly a status code that StagedFile accepts and a path
WellFormedLine(line) == Len(Split(line, TAB)) = 2 /\ ValidStatus(Split(line, TAB)[1])

\* C16: get_staged_files never aborts on a line it cannot parse; it returns one
\* StagedFile per well-formed line, in input order, and skips the others.
C16_MalformedLinesSkipped ==
    (StagedListed /\ git_result.returncode = 0) =>
        LET good == SelectSeq(git_result.stdout, WellFormedLine)
        IN  /\ ~ret.raised
            /\ ret.value = [i \in 1..Len(good) |->
                               [status |-> Split(good[i], TAB)[1][1],
                                file_path |-> Split(good[i], TAB)[2]]]

\* C17: when the git query fails, get_staged_files raises.
C17_FailedQueryRaises ==
    (StagedListed /\ git_result.returncode # 0) => ret.raised

\* C19: for a path that is not staged and patterns without a separator,
\* should_ignore is True exactly when the basename of the path matches a pattern.
C19_BasenameOnly ==
    (/\ pc = "should_ignore returned"
     /\ \A i \in 1..Len(staged_files) : staged_files[i].file_path # queried_path
     /\ \A pattern \in ignore_patterns : "/" \notin Range(pattern)) =>
        ret.value = (\E pattern \in ignore_patterns :
                         fnmatch(basename(queried_path), pattern))


\* the indices of the lines of a diff text that open a block
BlockStarts(lines) ==
    SelectSeq([i \in 1..Len(lines) |-> i], LAMBDA i : LineStarts(lines[i], "File: "))

\* the staged files that got a block, in staged order
Contributing ==
    SelectSeq(staged_files, LAMBDA f : f \in Range(files_to_commit) /\ f.status # "D")

\* C18: diff_content is made of one block per contributing file, in staged order;
\* a block is the line "File: <path>", the line "Status: <code>", the diff body
\* and a blank line.
C18_BlocksInStagedOrder ==
    (Collected /\ CollectedDiff) =>
        LET lines == Split(diff_content, NL)
            starts == BlockStarts(lines)
        IN  /\ Len(starts) = Len(Contributing)
            /\ diff_content # <<>> => starts[1] = 1
            /\ \A k \in 1..Len(starts) :
                   LET last == IF k < Len(starts) THEN starts[k + 1] - 1 ELSE Len(lines) - 1
                   IN  /\ k <= Len(Contributing)
                       /\ lines[starts[k]] = <<"File: ">> \o Contributing[k].file_path
                       /\ lines[starts[k] + 1] = <<"Status: ", Contributing[k].status>>
                       /\ LineStarts(lines[starts[k] + 2], "diff --git")
                       /\ lines[last] = <<>>

\* two staged files each gave a block
C18_Witness ==
    /\ Collected
    /\ Len(Contributing) = 2
    /\ Len(BlockStarts(Split(diff_content, NL))) = 2

\* C20: a staged file named like a built-in lockfile is in ignored_files and has
\* no block in diff_content, whatever the patterns are.
C20_LockfilesIgnored ==
    Collected =>
        \A i \in 1..Len(staged_files) :
            basename(staged_files[i].file_path) \in ADDITIONAL_IGNORE_PATTERNS =>
                /\ IsIgnored(staged_files[i])
                /\ staged_files[i].file_path
                       \in Range(GitDiffAnalyzer_ignored_files(staged_files, ignore_patterns))
                /\ BlocksOf(staged_files[i]) = 0


\* git answered with a diff for the i-th staged file
GotDiff(i) == diff_outcomes[i] \notin {"failed", "uncalled"}

\* C21: a get_diff that fails counts as empty and stops nothing: every staged
\* file for which git did answer is kept and gives the block it gives on its own,
\* whatever happened to the other files.
C21_FailureDoesNotAbort ==
    (Collected /\ CollectedDiff /\ Len(diff_outcomes) = Len(staged_files)) =>
        /\ \A i \in 1..Len(staged_files) :
               GotDiff(i) =>
                   /\ staged_files[i] \in Range(files_to_commit)
                   /\ BlocksOf(staged_files[i]) = 1
        /\ diff_content =
               Flatten([i \in 1..Len(staged_files) |->
                           IF GotDiff(i)
                           THEN <<"File: ">> \o staged_files[i].file_path
                                \o <<NL, "Status: ", staged_files[i].status, NL>>
                                \o GitDiffText(diff_outcomes[i], staged_files[i].file_path)
                                \o <<NL, NL>>
                           ELSE <<>>])

\* the diff of one staged file failed and another staged file still gave its block
C21_Witness ==
    /\ Collected
    /\ Len(diff_outcomes) = Len(staged_files)
    /\ \E i, j \in 1..Len(staged_files) :
           /\ diff_outcomes[i] = "failed"
           /\ GotDiff(j)
           /\ BlocksOf(staged_files[j]) = 1


\* the template generate_commit_message hands to create_prompt_content
TemplateInUse ==
    IF env.custom_template # <<>> THEN env.custom_template ELSE env.config.customTemplate

\* assembling the prompt of the run fails
PromptFails == create_prompt_content(env.use_default_template, TemplateInUse).raised

\* C22: in a run of generate_commit_message where assembling the prompt fails,
\* the provider's generate_commit_message is never called: the run ends at the
\* prompt (or earlier) and no raw response exists.
C22_PromptFailureBeforeBackend ==
    (Generated /\ PromptFails) =>
        /\ ~ret.backend_called
        /\ raw_response = None
        /\ ret.failed \in {"analyze_diff", "create_prompt_content"}
        /\ ~ret.raised

\* a run that ended at the prompt although provider and backend were ready to answer
C22_Witness ==
    /\ Generated
    /\ PromptFails
    /\ ret.failed = "create_prompt_content"
    /\ env.provider \in Providers
    /\ ~provider_generate(env.provider, env.backend).failed
    /\ ~ret.backend_called


Prompted == pc = "create_prompt_content returned"

\* the custom template is the one in use and names only fields the call fills
CustomKnown ==
    /\ ~env.use_default_template
    /\ \A i \in 1..Len(env.custom_template) :
           IsField(env.custom_template[i]) => env.custom_template[i] \in KnownFields

\* the custom template is the one in use and names a field the call cannot fill
CustomUnknown ==
    /\ ~env.use_default_template
    /\ \E i \in 1..Len(env.custom_template) :
           IsField(env.custom_template[i]) /\ env.custom_template[i] \notin KnownFields

\* C23: create_prompt_content with a custom template that leaves out some of
\* the four fields returns a prompt, every field it does name filled in and
\* the rest of the text kept; with a custom template naming a field it cannot
\* fill it raises, and never returns a prompt that still holds a field.
C23_CustomTemplate ==
    Prompted =>
        /\ CustomKnown =>
               /\ ~ret.raised
               /\ Len(ret.value) = Len(env.custom_template)
               /\ \A i \in 1..Len(ret.value) :
                      /\ ~IsField(ret.value[i])
                      /\ ~IsField(env.custom_template[i]) =>
                             ret.value[i] = env.custom_template[i]
        /\ CustomUnknown => ret = Raise("KeyError")
        /\ ~ret.raised => \A i \in 1..Len(ret.value) : ~IsField(ret.value[i])

\* a template with one of the four fields gave a prompt, and one with an
\* unknown field was refused
C23_Witness ==
    /\ Prompted
    /\ \/ /\ env.custom_template = TemplateOk
          /\ CustomKnown
          /\ ret = Return(<<"Commit for ", "value of {files_summary}">>)
       \/ /\ env.custom_template = TemplateBad
          /\ CustomUnknown
          /\ ret.raised


\* C24: within one process, once get_staged_files (get_gitignore_patterns) has
\* returned, it never queries the repository again, and every later call returns
\* what that first call returned, whatever the staging area and the .gitignore
\* files hold by then.
C24_ComputedOncePerRun ==
    pc = "process" =>
        /\ cache.staged_requeries = 0
        /\ cache.patterns_requeries = 0
        /\ (cache.last = "get_staged_files" /\ cache.first_staged.set) =>
               /\ ~ret.raised
               /\ ret.value = cache.first_staged.value
        /\ (cache.last = "get_gitignore_patterns" /\ cache.first_patterns.set) =>
               /\ ~ret.raised
               /\ ret.value = cache.first_patterns.value

\* a later call returned the first list although the staging area now holds
\* something else, in a process whose patterns are also older than the files
C24_Witness ==
    /\ pc = "process"
    /\ cache.last = "get_staged_files"
    /\ cache.calls = MaxCalls
    /\ ret.value = cache.first_staged.value
    /\ ~get_staged_files(git_result).raised
    /\ get_staged_files(git_result).value # ret.value
    /\ cache.first_patterns.set
    /\ get_gitignore_patterns(cache.gitignore).value # cache.first_patterns.value


\* the records of a diff text: each runs from a "diff --git" line to the line
\* before the next one
Records(diff) ==
    LET lines == Split(diff, NL)
        starts == SelectSeq([i \in 1..Len(lines) |-> i],
                            LAMBDA i : LineStarts(lines[i], "diff --git"))
    IN  [k \in 1..Len(starts) |->
            Join(SubSeq(lines, starts[k],
                        IF k < Len(starts) THEN starts[k + 1] - 1 ELSE Len(lines)),
                 <<NL>>)]

\* the category analyze_diff gives a record parsed alone, "none" when it raises
AloneCategory(record) ==
    LET r == analyze_diff(record)
    IN  IF r.raised THEN "none"
        ELSE CHOOSE c \in Range(Categories) : r.value[c] # <<>>

\* C25: the category of a record is the one it gets when parsed alone, whatever
\* records precede it: each category of the result holds, in order, the files of
\* exactly the records that fall in that category on their own.
C25_OwnBlockDecides ==
    (pc = "analyze_diff returned" /\ ~ret.raised) =>
        \A c \in Range(Categories) :
            [i \in 1..Len(ret.value[c]) |-> ret.value[c][i].file]
                = LET mine == SelectSeq(Records(diff_content),
                                        LAMBDA r : AloneCategory(r) = c)
                  IN  [i \in 1..Len(mine) |-> analyze_diff(mine[i]).value[c][1].file]


\* C26: analyze_diff returns normally on every diff text, and every record opened
\* by a "diff --git" line is an entry of exactly one of the four categories.
C26_TotalOnDiffText ==
    pc = "analyze_diff returned" =>
        /\ ~ret.raised
        /\ EntryCount(ret.value) = Len(Records(diff_content))
        /\ \A k \in 1..Len(Records(diff_content)) :
               Cardinality(EntriesOf(ret.value,
                                     AfterLastB(Head(Split(Records(diff_content)[k], NL)))))
                   >= 1


\* commit_command is running or has returned
InCommand ==
    \/ pc \in {"commit_command", "edit prompt", "commit prompt", "confirm prompt",
               "commit_command returned"}
    \/ cmd.has_changes

\* the message commit_command goes on with after the edit prompt
MessageAfterEdit ==
    IF cmd.edit = "y"
    THEN edit_commit_message(cmd.generated_msg, cmd.editor).value
    ELSE cmd.generated_msg

\* C27 as stated: "git commit" runs only after a message was generated and both
\* questions were answered yes, a no to either leaves no commit, and the message
\* committed is the edited text when the user chose to edit, otherwise the
\* generated message.
C27_CommitEditedOrGenerated ==
    InCommand =>
        /\ cmd.git_runs > 0 => cmd.generated /\ cmd.commit = "y" /\ cmd.confirm = "y"
        /\ (cmd.commit = "n" \/ cmd.confirm = "n") => ~cmd.committed /\ cmd.git_runs = 0
        /\ cmd.committed =>
               cmd.committed_msg = IF cmd.edit = "y" THEN Strip(cmd.editor.text)
                                   ELSE cmd.generated_msg

\* C27: "git commit" runs only after a message was generated and both questions
\* were answered yes, a no to either leaves no commit, and the message committed
\* is what edit_commit_message returned when the user chose to edit (the saved
\* text, or the generated message when the editor exited with an error),
\* otherwise the generated message.
C27_CommitOnlyWhenConfirmed ==
    InCommand =>
        /\ cmd.git_runs > 0 => cmd.generated /\ cmd.commit = "y" /\ cmd.confirm = "y"
        /\ (cmd.commit = "n" \/ cmd.confirm = "n") => ~cmd.committed /\ cmd.git_runs = 0
        /\ cmd.committed =>
               /\ cmd.git_runs = 1
               /\ cmd.committed_msg = MessageAfterEdit
               /\ cmd.editor.kind = "failed" => cmd.committed_msg = cmd.generated_msg

\* a commit was created with the text the user saved in the editor, after a yes
\* to both questions
C27_Witness ==
    /\ pc = "commit_command returned"
    /\ cmd.committed
    /\ cmd.edit = "y"
    /\ cmd.editor.kind = "saved"
    /\ cmd.committed_msg = EditedText
    /\ cmd.committed_msg # cmd.generated_msg
    /\ cmd.commit = "y"
    /\ cmd.confirm = "y"

\* C28: commit_command reports "Commit successfully created" only when git
\* commit ran and succeeded.
C28_SuccessOnlyWhenCommitted ==
    InCommand => (cmd.success_reported => cmd.git_runs = 1 /\ cmd.committed)

\* the run returns before generate_commit_message
ReturnsEarly ==
    \/ ~cmd.has_changes
    \/ get_staged_files(git_result).raised
    \/ get_staged_files(git_result).value = <<>>
    \/ ProviderInUse(cmd.provider, IF pc = "commit_command" THEN env.provider
                                    ELSE cmd.configured) \notin Providers

\* C29: a run of commit_command with no staged changes, an empty list of staged
\* files or a provider that is neither "openai" nor "ollama" calls no backend,
\* asks nothing and creates no commit.
C29_EarlyReturns ==
    (InCommand /\ ReturnsEarly) =>
        /\ pc \in {"commit_command", "commit_command returned"}
        /\ ~cmd.generated
        /\ ~cmd.backend_called
        /\ cmd.edit = "" /\ cmd.commit = "" /\ cmd.confirm = ""
        /\ cmd.git_runs = 0
        /\ ~cmd.committed
        /\ ~cmd.success_reported

\* the run returned at the provider test although files were staged and their
\* diff was collected
C29_Witness ==
    /\ pc = "commit_command returned"
    /\ cmd.outcome = "unsupported provider"
    /\ cmd.has_changes
    /\ staged_files # <<>>
    /\ diff_content # <<>>
    /\ ~cmd.backend_called
    /\ cmd.edit = ""


\* C30: extract_message_from_raw_response returns a formatted commit message as
\* it is: the message format_commit_message rendered from a structured response,
\* and the message the OpenAI provider rendered inside generate_commit_message.
C30_ExtractIdempotent ==
    /\ (Extracted /\ earlier # NoCall) => ret = Return(earlier.value)
    /\ (/\ Generated
        /\ ret.backend_called
        /\ env.provider = "openai"
        /\ ~provider_generate(env.provider, env.backend).failed) =>
           ret.value = raw_response.text


====
